---------------------------- MODULE Spec2Model ----------------------------
(***************************************************************************)
(* Model of the nvidia-lstm-forecast API: the SQLite access layer          *)
(* (DatabaseManager), the credential store (auth_service), the token       *)
(* service (jwt_handler) and the auth routes.                              *)
(*                                                                         *)
(* Strings are TLA+ strings; TLC evaluates Len, Head, Tail, SubSeq and \o  *)
(* on them, so strip/upper/startswith are computed character by character. *)
(* A Python exception is a result record whose "raised" field is the       *)
(* message ("" when nothing was raised).  Time is counted in seconds, the  *)
(* resolution of the JWT exp claim.                                        *)
(***************************************************************************)
EXTENDS Integers, Sequences, FiniteSets, TLC

VARIABLES
    users,       \* rows of table users, in rowid order: [id, username, hashed_password]
    tables,      \* names of the tables present in the database file
    locked,      \* another process holds the file lock beyond the 30 s timeout
    now,         \* the clock (seconds)
    resp,        \* the last HTTP exchange: request and response
    registered,  \* history: the <<username, password>> requests Register accepted
    dbcall,      \* the last direct DatabaseManager call and its result
    connections, \* sqlite3 connections opened and not closed so far
    reachable,   \* sqlite3.connect can open the database file at DB_PATH
    reqs,        \* the request each thread is serving, and the step it is at
    etl          \* the run of the ETL entry point, its files and its table

vars == <<users, tables, locked, now, resp, registered, dbcall, connections,
          reachable, reqs, etl>>

----------------------------------------------------------------------------
(* Bounds *)

MaxUsers == 3
MaxHolders == 1
MaxConnections == 3
MaxRequests == 2

----------------------------------------------------------------------------
(* Python str methods, on ASCII text.  What a character outside ASCII is   *)
(* depends on the encoding the text is read in, and the methods that look  *)
(* at the character itself are given no value of it.                       *)

\* an operation the model gives no value: evaluating it fails
Undefined(what) == CHOOSE value \in {} : value = what

CharAt(s, i) == IF 1 <= i /\ i <= Len(s) THEN SubSeq(s, i, i) ELSE ""

CharsOf(s) == {SubSeq(s, i, i) : i \in 1..Len(s)}

\* the characters U+0001 to U+007F, without the grave accent
Ascii ==
    CharsOf("\t\n\f\r")
    \cup CharsOf(" !\"#$%&'()*+,-./0123456789:;<=>?@")
    \cup CharsOf("ABCDEFGHIJKLMNOPQRSTUVWXYZ[\\]^_")
    \cup CharsOf("abcdefghijklmnopqrstuvwxyz{|}~")

\* the ASCII characters str.isspace() holds of: tab, LF, VT, FF, CR, FS, GS,
\* RS, US and the space
Whitespace == CharsOf("\t\n\f\r ")

\* str.isspace() of one character
IsSpace(c) ==
    IF c \in Ascii THEN c \in Whitespace ELSE Undefined(<<"isspace", c>>)

RECURSIVE lstrip(_)
lstrip(s) ==
    IF Len(s) > 0 /\ IsSpace(CharAt(s, 1)) THEN lstrip(Tail(s)) ELSE s

RECURSIVE rstrip(_)
rstrip(s) ==
    IF Len(s) > 0 /\ IsSpace(CharAt(s, Len(s)))
    THEN rstrip(SubSeq(s, 1, Len(s) - 1))
    ELSE s

strip(s) == rstrip(lstrip(s))

\* the cased ASCII letters
LowerLetters == "abcdefghijklmnopqrstuvwxyz"
UpperLetters == "ABCDEFGHIJKLMNOPQRSTUVWXYZ"
Digits == "0123456789"

LowerSet == CharsOf(LowerLetters)
UpperSet == CharsOf(UpperLetters)
DigitSet == CharsOf(Digits)

ToUpper ==
    [c \in LowerSet |->
        CharAt(UpperLetters,
               CHOOSE i \in 1..Len(LowerLetters) : CharAt(LowerLetters, i) = c)]
ToLower ==
    [c \in UpperSet |->
        CharAt(LowerLetters,
               CHOOSE i \in 1..Len(UpperLetters) : CharAt(UpperLetters, i) = c)]

\* str.upper() of one character
UpperChar(c) ==
    IF c \in LowerSet THEN ToUpper[c]
    ELSE IF c \in Ascii THEN c
    ELSE Undefined(<<"upper", c>>)

RECURSIVE upper(_)
\* str.upper(): the upper case of each character, a half of s at a time
upper(s) ==
    IF Len(s) = 0 THEN ""
    ELSE IF Len(s) = 1 THEN UpperChar(s)
    ELSE upper(SubSeq(s, 1, Len(s) \div 2))
         \o upper(SubSeq(s, Len(s) \div 2 + 1, Len(s)))

\* str.lower() of one character
LowerChar(c) ==
    IF c \in UpperSet THEN ToLower[c]
    ELSE IF c \in Ascii THEN c
    ELSE Undefined(<<"lower", c>>)

RECURSIVE lower(_)
\* str.lower(): the lower case of each character, a half of s at a time
lower(s) ==
    IF Len(s) = 0 THEN ""
    ELSE IF Len(s) = 1 THEN LowerChar(s)
    ELSE lower(SubSeq(s, 1, Len(s) \div 2))
         \o lower(SubSeq(s, Len(s) \div 2 + 1, Len(s)))

startswith(s, prefix) ==
    Len(s) >= Len(prefix) /\ SubSeq(s, 1, Len(prefix)) = prefix

RECURSIVE ContainsFrom(_, _, _)
ContainsFrom(s, sub, i) ==
    IF i + Len(sub) - 1 > Len(s) THEN FALSE
    ELSE IF SubSeq(s, i, i + Len(sub) - 1) = sub THEN TRUE
    ELSE ContainsFrom(s, sub, i + 1)

\* Python's  sub in s
Contains(s, sub) == ContainsFrom(s, sub, 1)

RECURSIVE replace(_, _, _)
\* s.replace(c, r) for a one-character c
replace(s, c, r) ==
    IF Len(s) = 0 THEN ""
    ELSE (IF Head(s) = c THEN r ELSE Head(s)) \o replace(Tail(s), c, r)

\* the ASCII characters str.isalnum() holds of
AlnumSet == LowerSet \cup UpperSet \cup DigitSet

\* str.isalnum() of one character
IsAlnumChar(c) ==
    IF c \in Ascii THEN c \in AlnumSet ELSE Undefined(<<"isalnum", c>>)

\* str.isalnum(): every character alphanumeric and at least one character
isalnum(s) ==
    Len(s) > 0 /\ \A i \in 1..Len(s) : IsAlnumChar(CharAt(s, i))

----------------------------------------------------------------------------
(* SQLite behind sqlite3.connect(...).cursor().execute(...): its           *)
(* tokenizer, its parser restricted to a fragment of SQL, name resolution  *)
(* and execution, and the checks of Python's sqlite3 module around them.   *)
(* A database is [users, tables, locked, reachable].  The fragment:        *)
(*   SELECT item, ... [FROM t [WHERE c = v AND ...] [LIMIT n]]              *)
(*   INSERT INTO t (c, ...) VALUES (v, ...)                                *)
(*   UPDATE t SET c = v, ... [WHERE c = v AND ...]                          *)
(*   DELETE FROM t [WHERE c = v AND ...]                                    *)
(*   PRAGMA table_info [(t)]                                               *)
(* with item one of  *  integer  'string'  ?  column  and v one of  ?      *)
(* 'string'  integer; t is users or sqlite_master.  Where a column may     *)
(* stand in a result or before the = of a WHERE, TRUE and FALSE are the    *)
(* integers 1 and 0 unless the table has a column of that name.  A         *)
(* statement SQLite refuses is refused with SQLite's message; a statement  *)
(* SQLite accepts outside the fragment is Undefined, and so is a query     *)
(* with a character outside Ascii.  A value is text, an integer, None or   *)
(* TooLarge, a Python int outside SQLite's 64 bits.                        *)

SqlSelectUser ==
    "SELECT username, hashed_password FROM users WHERE username = ? LIMIT 1"
SqlInsertUser ==
    "INSERT INTO users (username, hashed_password) VALUES (?, ?)"
SqlSelectOne == "SELECT 1"
SqlTableExists ==
    "SELECT name FROM sqlite_master WHERE type='table' AND name=?"
\* statements a caller of the generic update/delete methods may pass
SqlUpdateUser == "UPDATE users SET hashed_password = ? WHERE username = ?"
SqlDeleteUser == "DELETE FROM users WHERE username = ?"

\* statements led by a vertical tab, which str.strip() takes for white
\* space, and SQLite only after other white space
SqlTabSelect == "SELECT 1"
SqlTabInsert ==
    " INSERT INTO users (username, hashed_password) VALUES (?, ?)"

\* queries callers of the generic methods pass in the model
DbQueries ==
    {SqlSelectUser, SqlInsertUser, SqlSelectOne, SqlUpdateUser, SqlDeleteUser,
     SqlTabSelect, SqlTabInsert,
     "  select 1 ", "\n\tinsert into users (username, hashed_password) values (?, ?)",
     "SELECTED 1", "UPDATES users", "Insert", "DELETE", "", "  ",
     "PRAGMA table_info(users)", "-- x\nSELECT 1"}

KnownQueries == DbQueries \cup {SqlTableExists}

\* query.strip().upper(), computed once for the known queries
StripUpperOf == [q \in KnownQueries |-> upper(strip(q))]
StripUpper(query) ==
    IF query \in KnownQueries THEN StripUpperOf[query] ELSE upper(strip(query))

\* the tokenizer's character classes: white space starts with one of five
\* characters and goes on over VT as well
SpaceStart == CharsOf(" \t\n\f\r")
SpaceCont == SpaceStart \cup {""}
AsciiLower == CharsOf("abcdefghijklmnopqrstuvwxyz")
IdStart ==
    AsciiLower \cup CharsOf("ABCDEFGHIJKLMNOPQRSTUVWXYZ_")
IdChar == IdStart \cup DigitSet \cup {"$"}
Single == CharsOf("();+*%,&~")

RECURSIVE AsciiUpper(_)
\* names and keywords compare without regard to the case of ASCII letters
AsciiUpper(s) ==
    IF Len(s) = 0 THEN ""
    ELSE (IF Head(s) \in AsciiLower THEN ToUpper[Head(s)] ELSE Head(s))
         \o AsciiUpper(Tail(s))

\* the keywords of SQLite 3.40
Keywords ==
    {"ABORT", "ACTION", "ADD", "AFTER", "ALL", "ALTER", "ALWAYS", "ANALYZE",
     "AND", "AS", "ASC", "ATTACH", "AUTOINCREMENT", "BEFORE", "BEGIN",
     "BETWEEN", "BY", "CASCADE", "CASE", "CAST", "CHECK", "COLLATE",
     "COLUMN", "COMMIT", "CONFLICT", "CONSTRAINT", "CREATE", "CROSS",
     "CURRENT", "CURRENT_DATE", "CURRENT_TIME", "CURRENT_TIMESTAMP",
     "DATABASE", "DEFAULT", "DEFERRABLE", "DEFERRED", "DELETE", "DESC",
     "DETACH", "DISTINCT", "DO", "DROP", "EACH", "ELSE", "END", "ESCAPE",
     "EXCEPT", "EXCLUDE", "EXCLUSIVE", "EXISTS", "EXPLAIN", "FAIL",
     "FILTER", "FIRST", "FOLLOWING", "FOR", "FOREIGN", "FROM", "FULL",
     "GENERATED", "GLOB", "GROUP", "GROUPS", "HAVING", "IF", "IGNORE",
     "IMMEDIATE", "IN", "INDEX", "INDEXED", "INITIALLY", "INNER", "INSERT",
     "INSTEAD", "INTERSECT", "INTO", "IS", "ISNULL", "JOIN", "KEY", "LAST",
     "LEFT", "LIKE", "LIMIT", "MATCH", "MATERIALIZED", "NATURAL", "NO",
     "NOT", "NOTHING", "NOTNULL", "NULL", "NULLS", "OF", "OFFSET", "ON",
     "OR", "ORDER", "OTHERS", "OUTER", "OVER", "PARTITION", "PLAN",
     "PRAGMA", "PRECEDING", "PRIMARY", "QUERY", "RAISE", "RANGE",
     "RECURSIVE", "REFERENCES", "REGEXP", "REINDEX", "RELEASE", "RENAME",
     "REPLACE", "RESTRICT", "RETURNING", "RIGHT", "ROLLBACK", "ROW", "ROWS",
     "SAVEPOINT", "SELECT", "SET", "TABLE", "TEMP", "TEMPORARY", "THEN",
     "TIES", "TO", "TRANSACTION", "TRIGGER", "UNBOUNDED", "UNION", "UNIQUE",
     "UPDATE", "USING", "VACUUM", "VALUES", "VIEW", "VIRTUAL", "WHEN",
     "WHERE", "WINDOW", "WITH", "WITHOUT"}

\* the keywords of the fragment, each a token class of its own
FragmentWords ==
    {"SELECT", "INSERT", "UPDATE", "DELETE", "PRAGMA", "FROM", "INTO",
     "WHERE", "SET", "VALUES", "LIMIT", "AND"}

\* the keywords a statement can start with
Starters ==
    {"ALTER", "ANALYZE", "ATTACH", "BEGIN", "COMMIT", "CREATE", "DELETE",
     "DETACH", "DROP", "END", "EXPLAIN", "INSERT", "PRAGMA", "REINDEX",
     "RELEASE", "REPLACE", "ROLLBACK", "SAVEPOINT", "SELECT", "UPDATE",
     "VACUUM", "VALUES", "WITH"}

RECURSIVE Span(_, _, _)
\* the first position from i on whose character is not in set
Span(z, i, set) ==
    IF i <= Len(z) /\ SubSeq(z, i, i) \in set THEN Span(z, i + 1, set) ELSE i

RECURSIVE Find(_, _, _)
\* the first position from i on where sub starts, 0 when there is none
Find(z, sub, i) ==
    IF i + Len(sub) - 1 > Len(z) THEN 0
    ELSE IF SubSeq(z, i, i + Len(sub) - 1) = sub THEN i
    ELSE Find(z, sub, i + 1)

RECURSIVE QuoteEnd(_, _, _)
\* the position of the quote c that closes a literal, 0 when there is
\* none; a doubled quote stands for itself
QuoteEnd(z, i, c) ==
    IF i > Len(z) THEN 0
    ELSE IF CharAt(z, i) # c THEN QuoteEnd(z, i + 1, c)
    ELSE IF CharAt(z, i + 1) = c THEN QuoteEnd(z, i + 2, c)
    ELSE i

\* the token of class cls that starts at i and ends before end
Token(cls, z, i, end) ==
    [cls |-> cls, text |-> SubSeq(z, i, end - 1), start |-> i, end |-> end]

\* sqlite3GetToken: the token of z that starts at position i.  Its class is
\* a keyword of the fragment, "kw" for another keyword, "id", "int", "str",
\* "param", "other" for a token outside the fragment (a quoted name, a
\* numbered or named parameter), "space", "comment", "illegal", or the text
\* of the operator
sqlite3GetToken(z, i) ==
    LET c == CharAt(z, i)
        d == CharAt(z, i + 1)
        Op(seconds) ==
            IF d \in seconds THEN Token(c \o d, z, i, i + 2)
            ELSE Token(c, z, i, i + 1)
    IN
    IF c \in SpaceStart THEN Token("space", z, i, Span(z, i + 1, SpaceCont))
    ELSE IF c = "-" /\ d = "-"
    THEN LET j == Find(z, "\n", i + 2)
         IN  Token("comment", z, i, IF j = 0 THEN Len(z) + 1 ELSE j)
    ELSE IF c = "-" /\ d = ">"
    THEN IF CharAt(z, i + 2) = ">" THEN Token("->>", z, i, i + 3)
         ELSE Token("->", z, i, i + 2)
    ELSE IF c = "-" \/ c \in Single THEN Token(c, z, i, i + 1)
    ELSE IF c = "/" /\ d = "*" /\ i + 2 <= Len(z)
    THEN LET j == Find(z, "*/", i + 2)
         IN  Token("comment", z, i, IF j = 0 THEN Len(z) + 1 ELSE j + 2)
    ELSE IF c = "/" THEN Token(c, z, i, i + 1)
    ELSE IF c = "=" THEN Op({"="})
    ELSE IF c = "<" THEN Op({"=", ">", "<"})
    ELSE IF c = ">" THEN Op({"=", ">"})
    ELSE IF c = "|" THEN Op({"|"})
    ELSE IF c = "!"
    THEN IF d = "=" THEN Token("!=", z, i, i + 2)
         ELSE Token("illegal", z, i, i + 1)
    ELSE IF c \in {"'", "\""}
    THEN LET j == QuoteEnd(z, i + 1, c)
         IN  IF j = 0 THEN Token("illegal", z, i, Len(z) + 1)
             ELSE Token(IF c = "'" THEN "str" ELSE "other", z, i, j + 1)
    ELSE IF c = "."
    THEN IF d \in DigitSet THEN Undefined(<<"a number with a fraction", z>>)
         ELSE Token(c, z, i, i + 1)
    ELSE IF c \in DigitSet
    THEN LET j == Span(z, i, DigitSet)
         IN  IF CharAt(z, j) \in CharsOf(".eExX_")
             THEN Undefined(<<"a number that is no decimal integer", z>>)
             ELSE IF CharAt(z, j) \in IdChar
             THEN Token("illegal", z, i, Span(z, j, IdChar))
             ELSE Token("int", z, i, j)
    ELSE IF c = "["
    THEN LET j == Find(z, "]", i)
         IN  IF j = 0 THEN Token("illegal", z, i, Len(z) + 1)
             ELSE Token("other", z, i, j + 1)
    ELSE IF c = "?"
    THEN LET j == Span(z, i + 1, DigitSet)
         IN  Token(IF j = i + 1 THEN "param" ELSE "other", z, i, j)
    ELSE IF c \in CharsOf("$@:#")
    THEN LET j == Span(z, i + 1, IdChar)
         IN  IF CharAt(z, j) \in {"(", ":"}
             THEN Undefined(<<"a Tcl variable", z>>)
             ELSE IF j = i + 1 THEN Token("illegal", z, i, i + 1)
             ELSE Token("other", z, i, j)
    ELSE IF c \in IdStart
    THEN LET j == Span(z, i + 1, IdChar)
             word == AsciiUpper(SubSeq(z, i, j - 1))
         IN  IF word = "X" /\ CharAt(z, j) = "'"
             THEN Undefined(<<"a blob literal", z>>)
             ELSE Token(IF word \in FragmentWords THEN word
                        ELSE IF word \in Keywords THEN "kw"
                        ELSE "id",
                        z, i, j)
    ELSE Token("illegal", z, i, i + 1)

\* the parser of the fragment: in each state, the token classes that
\* continue a statement of the fragment and the state each leads to
Fragment ==
    [S0 |-> (";" :> "S0" @@ "SELECT" :> "SEL" @@ "INSERT" :> "INS" @@
              "UPDATE" :> "UPD" @@ "DELETE" :> "DEL" @@ "PRAGMA" :> "PRG"),
     SEL |-> ("*" :> "SSTAR" @@ "int" :> "SINT" @@ "str" :> "SSTR" @@
              "param" :> "SPAR" @@ "id" :> "SCOL"),
     SSTAR |-> ("FROM" :> "SFROM"),
     SINT |-> ("," :> "SEL" @@ "FROM" :> "SFROM"),
     SSTR |-> ("," :> "SEL" @@ "FROM" :> "SFROM"),
     SPAR |-> ("," :> "SEL" @@ "FROM" :> "SFROM"),
     SCOL |-> ("," :> "SEL" @@ "FROM" :> "SFROM"),
     SFROM |-> ("id" :> "STAB"),
     STAB |-> ("WHERE" :> "SWH" @@ "LIMIT" :> "LIM"),
     SWH |-> ("id" :> "SWCOL"),
     SWCOL |-> ("=" :> "SWEQ"),
     SWEQ |-> ("param" :> "SWP" @@ "str" :> "SWS" @@ "int" :> "SWI"),
     SWP |-> ("AND" :> "SWH" @@ "LIMIT" :> "LIM"),
     SWS |-> ("AND" :> "SWH" @@ "LIMIT" :> "LIM"),
     SWI |-> ("AND" :> "SWH" @@ "LIMIT" :> "LIM"),
     LIM |-> ("int" :> "LIMN"),
     LIMN |-> <<>>,
     DEL |-> ("FROM" :> "DFROM"),
     DFROM |-> ("id" :> "DTAB"),
     DTAB |-> ("WHERE" :> "DWH"),
     DWH |-> ("id" :> "DWCOL"),
     DWCOL |-> ("=" :> "DWEQ"),
     DWEQ |-> ("param" :> "DWP" @@ "str" :> "DWS" @@ "int" :> "DWI"),
     DWP |-> ("AND" :> "DWH"),
     DWS |-> ("AND" :> "DWH"),
     DWI |-> ("AND" :> "DWH"),
     UPD |-> ("id" :> "UTAB"),
     UTAB |-> ("SET" :> "USET"),
     USET |-> ("id" :> "UCOL"),
     UCOL |-> ("=" :> "UEQ"),
     UEQ |-> ("param" :> "UVP" @@ "str" :> "UVS" @@ "int" :> "UVI"),
     UVP |-> ("," :> "USET" @@ "WHERE" :> "UWH"),
     UVS |-> ("," :> "USET" @@ "WHERE" :> "UWH"),
     UVI |-> ("," :> "USET" @@ "WHERE" :> "UWH"),
     UWH |-> ("id" :> "UWCOL"),
     UWCOL |-> ("=" :> "UWEQ"),
     UWEQ |-> ("param" :> "UWP" @@ "str" :> "UWS" @@ "int" :> "UWI"),
     UWP |-> ("AND" :> "UWH"),
     UWS |-> ("AND" :> "UWH"),
     UWI |-> ("AND" :> "UWH"),
     INS |-> ("INTO" :> "INTO"),
     INTO |-> ("id" :> "ITAB"),
     ITAB |-> ("(" :> "ICOLS"),
     ICOLS |-> ("id" :> "ICOL"),
     ICOL |-> ("," :> "ICOLS" @@ ")" :> "ICEND"),
     ICEND |-> ("VALUES" :> "IVALS"),
     IVALS |-> ("(" :> "IV"),
     IV |-> ("param" :> "IVP" @@ "str" :> "IVS" @@ "int" :> "IVI"),
     IVP |-> ("," :> "IV" @@ ")" :> "IEND"),
     IVS |-> ("," :> "IV" @@ ")" :> "IEND"),
     IVI |-> ("," :> "IV" @@ ")" :> "IEND"),
     IEND |-> <<>>,
     PRG |-> ("id" :> "PNAME"),
     PNAME |-> ("(" :> "PLP"),
     PLP |-> ("id" :> "PARG"),
     PARG |-> (")" :> "PEND"),
     PEND |-> <<>>]

\* the states in which a statement of the fragment is complete
Accept ==
    {"SSTAR", "SINT", "SSTR", "SPAR", "SCOL", "STAB", "SWP", "SWS", "SWI",
     "LIMN", "DTAB", "DWP", "DWS", "DWI", "UVP", "UVS", "UVI", "UWP", "UWS",
     "UWI", "IEND", "PNAME", "PEND"}

\* the states in which SQLite takes the statement as complete
SqliteAccept ==
    Accept \cup {"SWCOL", "DWCOL", "UWCOL"}

\* all classes of the operator and word tokens
Classes ==
    {"AND", "DELETE", "FROM", "INSERT", "INTO", "LIMIT", "PRAGMA", "SELECT",
     "SET", "UPDATE", "VALUES", "WHERE", "id", "int", "str", "param", "(",
     ")", "+", "*", "%", ",", "&", "~", "-", "->", "->>", "/", "=", "==",
     "<", "<=", "<>", "<<", ">", ">=", ">>", "!=", "|", "||", "."}

\* in each state, the token classes SQLite's grammar refuses
Reject ==
    [SEL |->
        Classes \ {"PRAGMA", "id", "int", "str", "param", "(", "+", "*", "~", "-"},
     SSTAR |->
        Classes \ {"FROM", "LIMIT", "WHERE", ","},
     SINT |->
        {"DELETE", "INSERT", "INTO", "SELECT", "SET", "UPDATE",
             "VALUES", "int", "param", "(", ")", "~", "."},
     SSTR |->
        {"DELETE", "INSERT", "INTO", "SELECT", "SET", "UPDATE",
             "VALUES", "int", "param", "(", ")", "~"},
     SPAR |->
        {"DELETE", "INSERT", "INTO", "SELECT", "SET", "UPDATE",
             "VALUES", "int", "param", "(", ")", "~", "."},
     SCOL |->
        {"DELETE", "INSERT", "INTO", "SELECT", "SET", "UPDATE",
             "VALUES", "int", "param", ")", "~"},
     SFROM |->
        Classes \ {"PRAGMA", "id", "str", "("},
     STAB |->
        Classes \ {"LIMIT", "PRAGMA", "WHERE", "id", "str", "(", ",", "."},
     SWH |->
        Classes \ {"PRAGMA", "id", "int", "str", "param", "(", "+", "~", "-"},
     SWCOL |->
        {"DELETE", "FROM", "INSERT", "INTO", "PRAGMA", "SELECT", "SET",
             "UPDATE", "VALUES", "WHERE", "id", "int", "str", "param", ")",
             ",", "~"},
     SWEQ |->
        Classes \ {"PRAGMA", "id", "int", "str", "param", "(", "+", "~", "-"},
     SWP |->
        {"DELETE", "FROM", "INSERT", "INTO", "PRAGMA", "SELECT", "SET",
             "UPDATE", "VALUES", "WHERE", "id", "int", "str", "param", "(",
             ")", ",", "~", "."},
     SWS |->
        {"DELETE", "FROM", "INSERT", "INTO", "PRAGMA", "SELECT", "SET",
             "UPDATE", "VALUES", "WHERE", "id", "int", "str", "param", "(",
             ")", ",", "~"},
     SWI |->
        {"DELETE", "FROM", "INSERT", "INTO", "PRAGMA", "SELECT", "SET",
             "UPDATE", "VALUES", "WHERE", "id", "int", "str", "param", "(",
             ")", ",", "~", "."},
     LIM |->
        Classes \ {"PRAGMA", "id", "int", "str", "param", "(", "+", "~", "-"},
     LIMN |->
        {"DELETE", "FROM", "INSERT", "INTO", "LIMIT", "PRAGMA",
             "SELECT", "SET", "UPDATE", "VALUES", "WHERE", "id", "int",
             "str", "param", "(", ")", "~", "."},
     DEL |->
        Classes \ {"FROM"},
     DFROM |->
        Classes \ {"PRAGMA", "id", "str"},
     DTAB |->
        Classes \ {"LIMIT", "WHERE", "."},
     DWH |->
        Classes \ {"PRAGMA", "id", "int", "str", "param", "(", "+", "~", "-"},
     DWCOL |->
        {"DELETE", "FROM", "INSERT", "INTO", "PRAGMA", "SELECT", "SET",
             "UPDATE", "VALUES", "WHERE", "id", "int", "str", "param", ")",
             ",", "~"},
     DWEQ |->
        Classes \ {"PRAGMA", "id", "int", "str", "param", "(", "+", "~", "-"},
     DWP |->
        {"DELETE", "FROM", "INSERT", "INTO", "PRAGMA", "SELECT", "SET",
             "UPDATE", "VALUES", "WHERE", "id", "int", "str", "param", "(",
             ")", ",", "~", "."},
     DWS |->
        {"DELETE", "FROM", "INSERT", "INTO", "PRAGMA", "SELECT", "SET",
             "UPDATE", "VALUES", "WHERE", "id", "int", "str", "param", "(",
             ")", ",", "~"},
     DWI |->
        {"DELETE", "FROM", "INSERT", "INTO", "PRAGMA", "SELECT", "SET",
             "UPDATE", "VALUES", "WHERE", "id", "int", "str", "param", "(",
             ")", ",", "~", "."},
     UPD |->
        Classes \ {"PRAGMA", "id", "str"},
     UTAB |->
        Classes \ {"SET", "."},
     USET |->
        Classes \ {"PRAGMA", "id", "str", "("},
     UCOL |->
        Classes \ {"=", "=="},
     UEQ |->
        Classes \ {"PRAGMA", "id", "int", "str", "param", "(", "+", "~", "-"},
     UVP |->
        {"DELETE", "INSERT", "INTO", "PRAGMA", "SELECT", "SET",
             "UPDATE", "VALUES", "id", "int", "str", "param", "(", ")", "~",
             "."},
     UVS |->
        {"DELETE", "INSERT", "INTO", "PRAGMA", "SELECT", "SET",
             "UPDATE", "VALUES", "id", "int", "str", "param", "(", ")", "~"},
     UVI |->
        {"DELETE", "INSERT", "INTO", "PRAGMA", "SELECT", "SET",
             "UPDATE", "VALUES", "id", "int", "str", "param", "(", ")", "~",
             "."},
     UWH |->
        Classes \ {"PRAGMA", "id", "int", "str", "param", "(", "+", "~", "-"},
     UWCOL |->
        {"DELETE", "FROM", "INSERT", "INTO", "PRAGMA", "SELECT", "SET",
             "UPDATE", "VALUES", "WHERE", "id", "int", "str", "param", ")",
             ",", "~"},
     UWEQ |->
        Classes \ {"PRAGMA", "id", "int", "str", "param", "(", "+", "~", "-"},
     UWP |->
        {"DELETE", "FROM", "INSERT", "INTO", "PRAGMA", "SELECT", "SET",
             "UPDATE", "VALUES", "WHERE", "id", "int", "str", "param", "(",
             ")", ",", "~", "."},
     UWS |->
        {"DELETE", "FROM", "INSERT", "INTO", "PRAGMA", "SELECT", "SET",
             "UPDATE", "VALUES", "WHERE", "id", "int", "str", "param", "(",
             ")", ",", "~"},
     UWI |->
        {"DELETE", "FROM", "INSERT", "INTO", "PRAGMA", "SELECT", "SET",
             "UPDATE", "VALUES", "WHERE", "id", "int", "str", "param", "(",
             ")", ",", "~", "."},
     INS |->
        Classes \ {"INTO"},
     INTO |->
        Classes \ {"PRAGMA", "id", "str"},
     ITAB |->
        Classes \ {"SELECT", "VALUES", "(", "."},
     ICOLS |->
        Classes \ {"PRAGMA", "id", "str"},
     ICOL |->
        Classes \ {")", ","},
     ICEND |->
        Classes \ {"SELECT", "VALUES"},
     IVALS |->
        Classes \ {"("},
     IV |->
        Classes \ {"PRAGMA", "id", "int", "str", "param", "(", "+", "~", "-"},
     IVP |->
        {"DELETE", "FROM", "INSERT", "INTO", "LIMIT", "PRAGMA",
             "SELECT", "SET", "UPDATE", "VALUES", "WHERE", "id", "int",
             "str", "param", "(", "~", "."},
     IVS |->
        {"DELETE", "FROM", "INSERT", "INTO", "LIMIT", "PRAGMA",
             "SELECT", "SET", "UPDATE", "VALUES", "WHERE", "id", "int",
             "str", "param", "(", "~"},
     IVI |->
        {"DELETE", "FROM", "INSERT", "INTO", "LIMIT", "PRAGMA",
             "SELECT", "SET", "UPDATE", "VALUES", "WHERE", "id", "int",
             "str", "param", "(", "~", "."},
     IEND |->
        Classes \ {","},
     PRG |->
        Classes \ {"PRAGMA", "id", "str"},
     PNAME |->
        Classes \ {"(", "=", "==", "."},
     PLP |->
        Classes \ {"DELETE", "PRAGMA", "id", "int", "str", "+", "-"},
     PARG |->
        Classes \ {")"},
     PEND |->
        Classes \ {}]

KindOf ==
    [SELECT |-> "select", INSERT |-> "insert", UPDATE |-> "update",
     DELETE |-> "delete", PRAGMA |-> "pragma"]

\* the statement before its first token
NoStatement ==
    [kind |-> "empty", star |-> FALSE, items |-> <<>>, table |-> "",
     conds |-> <<>>, limit |-> -1, sets |-> <<>>, cols |-> <<>>,
     vals |-> <<>>, pragma |-> "", parg |-> "", nparams |-> 0, col |-> "",
     open |-> 0, result |-> <<>>]

RECURSIVE Unquote(_)
\* the text between the quotes of a string literal
Unquote(s) ==
    IF Len(s) = 0 THEN ""
    ELSE IF startswith(s, "''") THEN "'" \o Unquote(SubSeq(s, 3, Len(s)))
    ELSE Head(s) \o Unquote(Tail(s))

RECURSIVE ToInt(_)
\* the value of a decimal integer of at most nine digits
ToInt(s) ==
    IF Len(s) > 9 THEN Undefined(<<"an integer of ten digits", s>>)
    ELSE IF Len(s) = 0 THEN 0
    ELSE 10 * ToInt(SubSeq(s, 1, Len(s) - 1))
         + (CHOOSE n \in 0..9 : CharAt(Digits, n + 1) = CharAt(s, Len(s)))

\* the operand token t stands for; a parameter is numbered after the n
\* before it
Operand(t, n) ==
    IF t.cls = "param" THEN [kind |-> "param", val |-> n + 1, text |-> t.text]
    ELSE IF t.cls = "str"
    THEN [kind |-> "str", val |-> Unquote(SubSeq(t.text, 2, Len(t.text) - 1)),
          text |-> t.text]
    ELSE IF t.cls = "int"
    THEN [kind |-> "int", val |-> ToInt(t.text), text |-> t.text]
    ELSE [kind |-> "col", val |-> t.text, text |-> t.text]

\* the statement st after token t was taken in state
Shift(st, state, t) ==
    LET n == IF t.cls = "param" THEN st.nparams + 1 ELSE st.nparams IN
    IF state = "S0" THEN [st EXCEPT !.kind = KindOf[t.cls]]
    ELSE IF state = "SEL"
    THEN IF t.cls = "*" THEN [st EXCEPT !.star = TRUE]
         ELSE [st EXCEPT !.items = Append(@, Operand(t, st.nparams)),
                         !.nparams = n, !.open = t.start]
    ELSE IF state \in {"SFROM", "DFROM", "UPD", "INTO"}
    THEN [st EXCEPT !.table = t.text]
    ELSE IF state \in {"SWH", "DWH", "UWH", "USET"}
    THEN [st EXCEPT !.col = t.text]
    ELSE IF state \in {"SWEQ", "DWEQ", "UWEQ"}
    THEN [st EXCEPT !.conds = Append(@, [col |-> st.col,
                                         val |-> Operand(t, st.nparams)]),
                    !.nparams = n]
    ELSE IF state = "LIM" THEN [st EXCEPT !.limit = ToInt(t.text)]
    ELSE IF state = "UEQ"
    THEN [st EXCEPT !.sets = Append(@, [col |-> st.col,
                                        val |-> Operand(t, st.nparams)]),
                    !.nparams = n]
    ELSE IF state = "ICOLS" THEN [st EXCEPT !.cols = Append(@, t.text)]
    ELSE IF state = "IV"
    THEN [st EXCEPT !.vals = Append(@, Operand(t, st.nparams)), !.nparams = n]
    ELSE IF state = "PRG"
    THEN IF AsciiUpper(t.text) # "TABLE_INFO"
         THEN Undefined(<<"a pragma other than table_info", t.text>>)
         ELSE [st EXCEPT !.pragma = t.text]
    ELSE IF state = "PLP" THEN [st EXCEPT !.parg = t.text]
    ELSE st

RECURSIVE RTrim(_, _, _)
\* the text of z from open up to before, without the white space at its end
RTrim(z, open, before) ==
    IF before > open /\ CharAt(z, before - 1) \in SpaceCont
    THEN RTrim(z, open, before - 1)
    ELSE SubSeq(z, open, before - 1)

\* a result column that is an expression is named by its text, which ends
\* where the next token starts
NameItem(st, z, before) ==
    IF st.open = 0 THEN st
    ELSE [st EXCEPT !.items[Len(st.items)].text = RTrim(z, st.open, before),
                    !.open = 0]

\* the parser before the first token: its state and the statement so far;
\* done once it has met an error or the end of the statement, with err the
\* message of the error ("" for none) and tail the text after the statement
ParserStart ==
    [state |-> "S0", stmt |-> NoStatement, done |-> FALSE, err |-> "",
     tail |-> ""]

ParseError(p, msg) == [p EXCEPT !.done = TRUE, !.err = msg]

Near(p, t) == ParseError(p, "near \"" \o t.text \o "\": syntax error")

\* sqlite3Parser: parser p after token t of z, which is neither white
\* space nor a comment
sqlite3Parser(z, p, t) ==
    IF t.cls = "illegal"
    THEN ParseError(p, "unrecognized token: \"" \o t.text \o "\"")
    ELSE IF t.cls = ";"
    THEN IF p.state = "S0" THEN p
         ELSE IF p.state \in Accept
         THEN [p EXCEPT !.done = TRUE,
                        !.stmt = NameItem(@, z, t.start),
                        !.tail = SubSeq(z, t.end, Len(z))]
         ELSE IF p.state \in SqliteAccept
         THEN Undefined(<<"a statement outside the fragment", z>>)
         ELSE Near(p, t)
    ELSE IF t.cls \in DOMAIN Fragment[p.state]
    THEN [p EXCEPT !.state = Fragment[@][t.cls],
                   !.stmt = Shift(NameItem(@, z, t.start), p.state, t)]
    ELSE IF p.state = "S0"
    THEN IF t.cls = "VALUES"
            \/ (t.cls = "kw" /\ AsciiUpper(t.text) \in Starters)
         THEN Undefined(<<"a statement outside the fragment", z>>)
         ELSE Near(p, t)
    ELSE IF t.cls \in Reject[p.state] THEN Near(p, t)
    ELSE Undefined(<<"a statement outside the fragment", z>>)

\* the parser at the end of the text
ParserEnd(z, p) ==
    IF p.state = "S0" \/ p.state \in Accept
    THEN [p EXCEPT !.done = TRUE, !.stmt = NameItem(@, z, Len(z) + 1)]
    ELSE IF p.state \in SqliteAccept
    THEN Undefined(<<"a statement outside the fragment", z>>)
    ELSE ParseError(p, "incomplete input")

RECURSIVE sqlite3RunParser(_, _, _)
RECURSIVE ParserStep(_, _, _)

\* sqlite3RunParser: the parse of z from position i on by parser p, token
\* by token up to the end of the first statement
sqlite3RunParser(z, i, p) ==
    IF p.done THEN p
    ELSE IF i > Len(z) THEN ParserEnd(z, p)
    ELSE ParserStep(z, p, sqlite3GetToken(z, i))

\* the parse from token t on
ParserStep(z, p, t) ==
    sqlite3RunParser(z, t.end,
                     IF t.cls \in {"space", "comment"} THEN p
                     ELSE sqlite3Parser(z, p, t))

\* the parse of a query, computed once for the known queries
ParseOf == [q \in KnownQueries |-> sqlite3RunParser(q, 1, ParserStart)]
Parse(query) ==
    IF query \in KnownQueries THEN ParseOf[query]
    ELSE IF Span(query, 1, Ascii) <= Len(query)
    THEN Undefined(<<"a query with a character outside Ascii", query>>)
    ELSE sqlite3RunParser(query, 1, ParserStart)

\* the text of z from i, at most n characters of it
Slice(z, i, n) ==
    SubSeq(z, i, IF i + n - 1 > Len(z) THEN Len(z) ELSE i + n - 1)

RECURSIVE lstrip_sql(_, _)
\* lstrip_sql of the sqlite3 module: the position from i on of the first
\* character after white space and comments, 0 when there is none
lstrip_sql(z, i) ==
    IF i > Len(z) THEN 0
    ELSE IF CharAt(z, i) \in SpaceStart THEN lstrip_sql(z, i + 1)
    ELSE IF Slice(z, i, 2) = "--"
    THEN LET j == Find(z, "\n", i)
         IN  IF j = 0 THEN 0 ELSE lstrip_sql(z, j + 1)
    ELSE IF Slice(z, i, 2) = "/*"
    THEN LET j == Find(z, "*/", i + 2)
         IN  IF j = 0 THEN 0 ELSE lstrip_sql(z, j + 2)
    ELSE i

\* the sqlite3 module counts the rows a statement changed when the text
\* after white space and comments starts with one of four verbs
is_dml(z) ==
    LET p == lstrip_sql(z, 1) IN
    /\ p # 0
    /\ \/ AsciiUpper(Slice(z, p, 6)) \in {"INSERT", "UPDATE", "DELETE"}
       \/ AsciiUpper(Slice(z, p, 7)) = "REPLACE"

\* the columns of users (the repository does not create the table; this is
\* the schema its statements need) and those of the schema table
UserCols == <<"id", "username", "hashed_password">>
UserTypes == <<"INTEGER", "TEXT", "TEXT">>
MasterCols == <<"type", "name", "tbl_name", "rootpage", "sql">>

SameName(a, b) == AsciiUpper(a) = AsciiUpper(b)

\* the names of the key of a table that has a rowid, for a table that
\* declares no column of that name
RowidNames == {"ROWID", "OID", "_ROWID_"}

\* the column of cols that name names, "" when there is none; id is the
\* INTEGER PRIMARY KEY of users and so its rowid
ColOf(name, cols) ==
    LET hit == {i \in 1..Len(cols) : SameName(cols[i], name)}
    IN  IF hit # {} THEN cols[CHOOSE i \in hit : TRUE]
        ELSE IF AsciiUpper(name) \notin RowidNames \/ cols = <<>> THEN ""
        ELSE IF cols = UserCols THEN "id"
        ELSE Undefined(<<"the rowid of the schema table", name>>)

\* the table that name names, "" when there is none
TableOf(schema, name) ==
    IF SameName(name, "sqlite_master") THEN "sqlite_master"
    ELSE IF startswith(AsciiUpper(name), "SQLITE_")
    THEN Undefined(<<"a schema table", name>>)
    ELSE LET hit == {t \in schema : SameName(t, name)}
         IN  IF hit = {} THEN "" ELSE CHOOSE t \in hit : TRUE

ColsOf(t) == IF t = "sqlite_master" THEN MasterCols ELSE UserCols

RECURSIVE SeqOf(_)
\* the elements of a set, one after the other
SeqOf(set) ==
    IF set = {} THEN <<>>
    ELSE LET x == CHOOSE x \in set : TRUE IN <<x>> \o SeqOf(set \ {x})

\* the rows of table t; those of the schema table without rootpage and sql
RowsOf(db, t) ==
    IF t = "users" THEN db.users
    ELSE IF t # "sqlite_master"
    THEN Undefined(<<"the rows of a table other than users", t>>)
    ELSE LET names == SeqOf(db.tables)
         IN  [i \in 1..Len(names) |->
                 [type |-> "table", name |-> names[i], tbl_name |-> names[i]]]

RECURSIVE ResolveNames(_, _)
\* the error of the first of names that is no column of cols, "" when
\* each is one
ResolveNames(names, cols) ==
    IF names = <<>> THEN ""
    ELSE IF ColOf(Head(names), cols) = ""
    THEN "no such column: " \o Head(names)
    ELSE IF ColOf(Head(names), cols) \in {"rootpage", "sql"}
    THEN Undefined(<<"a use of the column", Head(names)>>)
    ELSE ResolveNames(Tail(names), cols)

RECURSIVE FirstMissing(_, _)
\* the first of names that is no column of cols, "" when each is one
FirstMissing(names, cols) ==
    IF names = <<>> THEN ""
    ELSE IF ColOf(Head(names), cols) = "" THEN Head(names)
    ELSE FirstMissing(Tail(names), cols)

RECURSIVE ItemCols(_)
\* the columns the result columns items name
ItemCols(items) ==
    IF items = <<>> THEN <<>>
    ELSE (IF Head(items).kind = "col" THEN <<Head(items).val>> ELSE <<>>)
         \o ItemCols(Tail(items))

Names(pairs) == [i \in 1..Len(pairs) |-> pairs[i].col]

\* sqlite3ExprIdToTrueFalse: an identifier that is no column of cols and
\* reads TRUE or FALSE is the integer 1 or 0
IsTrueFalse(name, cols) ==
    ColOf(name, cols) = "" /\ AsciiUpper(name) \in {"TRUE", "FALSE"}

TrueFalseOf(name) == IF AsciiUpper(name) = "TRUE" THEN 1 ELSE 0

RECURSIVE Identifiers(_, _)
\* those of names that are not TRUE or FALSE for cols
Identifiers(names, cols) ==
    IF names = <<>> THEN <<>>
    ELSE (IF IsTrueFalse(Head(names), cols) THEN <<>> ELSE <<Head(names)>>)
         \o Identifiers(Tail(names), cols)

\* name resolution when the statement is prepared: the message of the
\* error, "" for none
Resolve(schema, st) ==
    IF st.kind \in {"empty", "pragma"} THEN ""
    ELSE IF st.table = ""
    THEN IF st.star THEN "no tables specified"
         ELSE IF Identifiers(ItemCols(st.items), <<>>) # <<>>
         THEN "no such column: " \o Identifiers(ItemCols(st.items), <<>>)[1]
         ELSE ""
    ELSE IF TableOf(schema, st.table) = ""
    THEN "no such table: " \o st.table
    ELSE
    LET t == TableOf(schema, st.table)
        cols == ColsOf(t)
    IN
    IF t \notin {"users", "sqlite_master"}
    THEN Undefined(<<"the columns of a table other than users", st.table>>)
    ELSE IF st.kind # "select" /\ t = "sqlite_master"
    THEN Undefined(<<"a write to the schema table", st.table>>)
    ELSE IF st.kind = "insert"
    THEN IF FirstMissing(st.cols, cols) # ""
         THEN "table " \o st.table \o " has no column named "
              \o FirstMissing(st.cols, cols)
         ELSE IF Len(st.vals) # Len(st.cols)
         THEN ToString(Len(st.vals)) \o " values for "
              \o ToString(Len(st.cols)) \o " columns"
         ELSE ""
    ELSE IF st.star /\ t = "sqlite_master"
    THEN Undefined(<<"the columns rootpage and sql", st.table>>)
    ELSE IF ResolveNames(Identifiers(ItemCols(st.items), cols), cols) # ""
    THEN ResolveNames(Identifiers(ItemCols(st.items), cols), cols)
    ELSE IF ResolveNames(Names(st.sets), cols) # ""
    THEN ResolveNames(Names(st.sets), cols)
    ELSE ResolveNames(Identifiers(Names(st.conds), cols), cols)

\* sqlite3.Row finds a column by its name, the case of the letters apart
\* when both names are ASCII
RowSameName(a, b) ==
    \/ a = b
    \/ /\ Span(a, 1, Ascii) > Len(a)
       /\ Span(b, 1, Ascii) > Len(b)
       /\ SameName(a, b)

\* the statement st bound to the schema: each name replaced by the table
\* or the column it names, TRUE and FALSE by their integers (a condition
\* on one has no column and the integer as lit), and result the operand of
\* each result column under its name, as sqlite3.Row gives it by name: of
\* the columns of one name, the first
Bound(schema, st) ==
    LET t == IF st.table = "" THEN "" ELSE TableOf(schema, st.table)
        cols == IF t = "" THEN <<>> ELSE ColsOf(t)
        n == IF st.star THEN Len(cols) ELSE 0
        item(i) ==
            IF i <= n THEN [kind |-> "col", val |-> cols[i], text |-> cols[i]]
            ELSE IF st.items[i - n].kind # "col" THEN st.items[i - n]
            ELSE IF IsTrueFalse(st.items[i - n].val, cols)
            THEN [kind |-> "int", val |-> TrueFalseOf(st.items[i - n].val),
                  text |-> st.items[i - n].text]
            ELSE [kind |-> "col", val |-> ColOf(st.items[i - n].val, cols),
                  text |-> ColOf(st.items[i - n].val, cols)]
        all == 1..(n + Len(st.items))
        bind(pairs) ==
            [i \in 1..Len(pairs) |-> [pairs[i] EXCEPT !.col = ColOf(@, cols)]]
        cond(pair) ==
            [col |-> ColOf(pair.col, cols), lit |-> TrueFalseOf(pair.col),
             val |-> pair.val]
    IN  [st EXCEPT
            !.table = t,
            !.parg = IF @ = "" THEN "" ELSE TableOf(schema, @),
            !.conds = [i \in 1..Len(@) |-> cond(@[i])],
            !.sets = bind(@),
            !.cols = [i \in 1..Len(@) |-> ColOf(@[i], cols)],
            !.result =
                [c \in {item(i).text : i \in all} |->
                    item(CHOOSE i \in all :
                            /\ RowSameName(item(i).text, c)
                            /\ \A j \in all :
                                RowSameName(item(j).text, c) => i <= j)]]

\* Python's None, SQLite's NULL
None == [none |-> TRUE]

\* a Python int below -2^63 or above 2^63 - 1
TooLarge == [int |-> "too large"]

\* the storage class of a value, "overflow" for an int SQLite cannot store
TypeOf(v) ==
    LET s == ToString(v) IN
    IF CharAt(s, 1) = "\"" THEN "text"
    ELSE IF s = ToString(None) THEN "null"
    ELSE IF s = ToString(TooLarge) THEN "overflow"
    ELSE IF CharAt(s, 1) \in DigitSet \cup {"-"} THEN "integer"
    ELSE Undefined(<<"a value that is no text, integer or None", v>>)

\* the characters of a decimal literal
NumberChars == DigitSet \cup CharsOf("+-.eE")

\* the integer that text is, with white space around it apart
NumberOf(t) ==
    LET body == IF CharAt(t, 1) \in {"+", "-"} THEN SubSeq(t, 2, Len(t))
                ELSE t
    IN  IF body # "" /\ Span(body, 1, DigitSet) > Len(body)
        THEN [num |-> TRUE,
              val |-> IF CharAt(t, 1) = "-" THEN 0 - ToInt(body)
                      ELSE ToInt(body)]
        ELSE IF /\ Span(t, 1, NumberChars) > Len(t)
                /\ Span(t, 1, NumberChars \ DigitSet) <= Len(t)
        THEN Undefined(<<"a number that is no decimal integer", t>>)
        ELSE [num |-> FALSE, val |-> 0]

\* NUMERIC affinity applied to text s: whether it is a number, and which
ToNumber(s) == NumberOf(RTrim(s, Span(s, 1, SpaceCont), Len(s) + 1))

\* the rowid value v stands for: [kind, val] with kind "null" for NULL,
\* "mismatch" for text that is no number
KeyOf(v) ==
    IF TypeOf(v) = "null" THEN [kind |-> "null", val |-> 0]
    ELSE IF TypeOf(v) = "integer" THEN [kind |-> "int", val |-> v]
    ELSE IF ToNumber(v).num THEN [kind |-> "int", val |-> ToNumber(v).val]
    ELSE [kind |-> "mismatch", val |-> 0]

\* TEXT affinity applied to value v
TextOf(v) == IF TypeOf(v) = "integer" THEN ToString(v) ELSE v

\* col = v for a row that has have in col, under the affinity of col
Equal(col, have, v) ==
    IF TypeOf(v) = "null" THEN FALSE
    ELSE IF col = "id"
    THEN IF TypeOf(v) = "integer" THEN have = v
         ELSE ToNumber(v).num /\ have = ToNumber(v).val
    ELSE IF TypeOf(have) = "null" THEN FALSE
    ELSE have = TextOf(v)

\* the value of operand op under the bound values
ValueOf(op, values) == IF op.kind = "param" THEN values[op.val] ELSE op.val

\* lit = v for the integer lit, which has no affinity
EqualInteger(lit, v) == TypeOf(v) = "integer" /\ v = lit

\* WHERE: row satisfies each of conds
Matches(row, conds, values) ==
    \A i \in 1..Len(conds) :
        IF conds[i].col = ""
        THEN EqualInteger(conds[i].lit, ValueOf(conds[i].val, values))
        ELSE Equal(conds[i].col, row[conds[i].col],
                   ValueOf(conds[i].val, values))

RECURSIVE Where(_, _, _, _)
\* the rows that satisfy conds (want) or do not (~want), in rowid order
Where(rows, conds, values, want) ==
    IF rows = <<>> THEN <<>>
    ELSE (IF Matches(Head(rows), conds, values) = want
          THEN <<Head(rows)>> ELSE <<>>)
         \o Where(Tail(rows), conds, values, want)

\* the row of the result for row: each result column under its name
Project(row, st, values) ==
    [c \in DOMAIN st.result |->
        IF st.result[c].kind = "col" THEN row[st.result[c].val]
        ELSE ValueOf(st.result[c], values)]

\* the largest rowid of rows, which are in rowid order; the rowid SQLite
\* chooses for a new row is one more, and 1 in an empty table
MaxId(rows) == IF rows = <<>> THEN 0 ELSE rows[Len(rows)].id

\* rows with row at its place in rowid order
Placed(rows, row) ==
    IF rows = <<>> \/ rows[Len(rows)].id < row.id THEN Append(rows, row)
    ELSE LET n == Cardinality({i \in 1..Len(rows) : rows[i].id < row.id})
         IN  SubSeq(rows, 1, n) \o <<row>> \o SubSeq(rows, n + 1, Len(rows))

\* the first and the last place of name in names, 0 when it has none
FirstOf(names, name) ==
    LET at == {i \in 1..Len(names) : names[i] = name}
    IN  IF at = {} THEN 0 ELSE CHOOSE i \in at : \A j \in at : i <= j
LastOf(names, name) ==
    LET at == {i \in 1..Len(names) : names[i] = name}
    IN  IF at = {} THEN 0 ELSE CHOOSE i \in at : \A j \in at : j <= i

\* the row PRAGMA table_info gives for column i of users
TableInfoRow(i) ==
    [cid |-> i - 1, name |-> UserCols[i], type |-> UserTypes[i],
     notnull |-> 0, dflt_value |-> None, pk |-> IF i = 1 THEN 1 ELSE 0]

\* the row an UPDATE leaves of row: the last assignment to a column
\* counts, and the column's affinity is applied to the value
Assign(row, sets, values) ==
    [c \in DOMAIN row |->
        LET i == LastOf(Names(sets), c)
        IN  IF i = 0 THEN row[c]
            ELSE IF c = "id" THEN KeyOf(ValueOf(sets[i].val, values)).val
            ELSE TextOf(ValueOf(sets[i].val, values))]

\* connected: sqlite3.connect returned a connection
EngineOk(db, rows, lastrowid, rowcount) ==
    [exc |-> "", msg |-> "", rows |-> rows, lastrowid |-> lastrowid,
     rowcount |-> rowcount, db |-> db, connected |-> TRUE]

EngineErr(db, exc, msg) ==
    [exc |-> exc, msg |-> msg, rows |-> <<>>, lastrowid |-> 0,
     rowcount |-> -1, db |-> db, connected |-> TRUE]

\* sqlite3.connect failing on a file it cannot open
ConnectErr(db) ==
    [EngineErr(db, "OperationalError", "unable to open database file")
        EXCEPT !.connected = FALSE]

\* sqlite3.ProgrammingError for m values bound to n placeholders
BindingsErr(db, n, m) ==
    EngineErr(db, "ProgrammingError",
              "Incorrect number of bindings supplied. The current statement uses "
              \o ToString(n) \o ", and there are " \o ToString(m)
              \o " supplied.")

\* OverflowError, which is no sqlite3.Error, for a bound Python int that
\* does not fit SQLite's INTEGER
Overflows(values) ==
    \E i \in 1..Len(values) : TypeOf(values[i]) = "overflow"
OverflowErr(db) ==
    EngineErr(db, "OverflowError",
              "Python int too large to convert to SQLite INTEGER")

\* sqlite3.IntegrityError: the statement is undone
Mismatch(db) == EngineErr(db, "IntegrityError", "datatype mismatch")
NotUnique(db) ==
    EngineErr(db, "IntegrityError", "UNIQUE constraint failed: users.id")

\* INSERT into users: of the values for the key the last counts, of those
\* for another column the first; a column not named is NULL, and without
\* a key the row gets the rowid after the largest
sqlite3Insert(db, st, values) ==
    LET k == LastOf(st.cols, "id")
        key == IF k = 0 THEN KeyOf(None)
               ELSE KeyOf(ValueOf(st.vals[k], values))
        id == IF key.kind = "null" THEN MaxId(db.users) + 1 ELSE key.val
        text(c) ==
            IF FirstOf(st.cols, c) = 0 THEN None
            ELSE TextOf(ValueOf(st.vals[FirstOf(st.cols, c)], values))
    IN  IF key.kind = "mismatch" THEN Mismatch(db)
        ELSE IF id > 999999999 \/ id < -999999999
        THEN Undefined(<<"an integer of ten digits", id>>)
        ELSE IF \E i \in 1..Len(db.users) : db.users[i].id = id
        THEN NotUnique(db)
        ELSE EngineOk([db EXCEPT !.users =
                          Placed(@, [id |-> id, username |-> text("username"),
                                     hashed_password |->
                                         text("hashed_password")])],
                      <<>>, id, 1)

\* UPDATE of users: the rows that satisfy WHERE are found, then changed
\* one after the other; a new rowid must be an integer no other row has
sqlite3Update(db, st, values) ==
    LET hit == {i \in 1..Len(db.users) :
                   Matches(db.users[i], st.conds, values)}
        k == LastOf(Names(st.sets), "id")
        key == KeyOf(ValueOf(st.sets[k].val, values))
        kept == [i \in 1..Len(db.users) |->
                    IF i \in hit THEN Assign(db.users[i], st.sets, values)
                    ELSE db.users[i]]
        one == CHOOSE i \in hit : TRUE
    IN  IF k = 0 \/ hit = {}
        THEN EngineOk([db EXCEPT !.users = kept], <<>>, 0, Cardinality(hit))
        ELSE IF key.kind # "int" THEN Mismatch(db)
        ELSE IF \/ Cardinality(hit) > 1
                \/ \E i \in 1..Len(db.users) :
                        i # one /\ db.users[i].id = key.val
        THEN NotUnique(db)
        ELSE EngineOk([db EXCEPT !.users =
                          Placed(SubSeq(@, 1, one - 1)
                                 \o SubSeq(@, one + 1, Len(@)), kept[one])],
                      <<>>, 0, 1)

\* one step of a prepared statement under the bound values: the database
\* after it, the rows it gives, the rowid of its insert and the rows it
\* changed
Step(db, st, values) ==
    IF st.kind = "empty" THEN EngineOk(db, <<>>, None, -1)
    ELSE IF st.kind = "pragma"
    THEN IF st.parg = "" THEN EngineOk(db, <<>>, 0, -1)
         ELSE IF st.parg # "users"
         THEN Undefined(<<"the columns of a table other than users",
                          st.parg>>)
         ELSE EngineOk(db, [i \in 1..Len(UserCols) |-> TableInfoRow(i)],
                       0, -1)
    ELSE IF st.kind = "select"
    THEN IF st.table = ""
         THEN EngineOk(db, <<Project(<<>>, st, values)>>, 0, -1)
         ELSE
         LET hit == Where(RowsOf(db, st.table), st.conds, values, TRUE)
             n == IF st.limit >= 0 /\ st.limit < Len(hit)
                  THEN st.limit ELSE Len(hit)
         IN  IF st.table = "sqlite_master" /\ n > 1
             THEN Undefined(<<"the order of the rows of the schema table",
                              st.table>>)
             ELSE EngineOk(db, [i \in 1..n |-> Project(hit[i], st, values)],
                           0, -1)
    ELSE IF st.kind = "insert" THEN sqlite3Insert(db, st, values)
    ELSE IF st.kind = "update" THEN sqlite3Update(db, st, values)
    ELSE EngineOk([db EXCEPT !.users = Where(@, st.conds, values, FALSE)],
                  <<>>, 0,
                  Len(Where(db.users, st.conds, values, TRUE)))

\* a statement refused with an exception, or prepared
Refused(exc, msg) == [exc |-> exc, msg |-> msg, stmt |-> NoStatement]

\* the statement of parse p whose name resolution gave the error e and the
\* bound statement b: the module refuses text after the statement
Resolved(p, e, b) ==
    IF e # "" THEN Refused("OperationalError", e)
    ELSE IF lstrip_sql(p.tail, 1) # 0
    THEN Refused("ProgrammingError",
                 "You can only execute one statement at a time.")
    ELSE [exc |-> "", msg |-> "", stmt |-> b]

\* sqlite3_prepare_v2 of parse p over the schema, and the module's
\* check of what follows the first statement
Compiled(schema, p) ==
    IF p.err # "" THEN Refused("OperationalError", p.err)
    ELSE Resolved(p, Resolve(schema, p.stmt), Bound(schema, p.stmt))

\* the schemas the database file has in this model
KnownSchemas == SUBSET {"users"}

\* the prepared statement of a query, computed once for the known queries
CompileOf ==
    [c \in {<<q, t>> : q \in KnownQueries, t \in KnownSchemas} |->
        Compiled(c[2], Parse(c[1]))]
Compile(schema, query) ==
    IF query \in KnownQueries /\ schema \in KnownSchemas
    THEN CompileOf[<<query, schema>>]
    ELSE Compiled(schema, Parse(query))

\* the text is parsed before the file is read, and reading the schema
\* needs the lock: the statement c of parse p prepared on db
Prepared(db, p, c) ==
    IF p.err = "" /\ (p.stmt.table # "" \/ p.stmt.kind = "pragma")
       /\ db.locked
    THEN Refused("OperationalError", "database is locked")
    ELSE c

\* [exc, msg, stmt]
Prepare(db, query) ==
    Prepared(db, Parse(query), Compile(db.tables, query))

\* the module reports the rows a statement changed only of a statement it
\* takes for DML
Counted(query, r) ==
    IF is_dml(query) THEN r ELSE [r EXCEPT !.rowcount = -1]

\* cursor.execute of the statement prepared as p
Executed(db, query, values, p) ==
    IF p.exc # "" THEN EngineErr(db, p.exc, p.msg)
    ELSE IF Len(values) # p.stmt.nparams
    THEN BindingsErr(db, p.stmt.nparams, Len(values))
    ELSE IF Overflows(values) THEN OverflowErr(db)
    ELSE Counted(query, Step(db, p.stmt, values))

\* sqlite3.connect(...) and cursor.execute(query, values)
SqliteExecute(db, query, values) ==
    IF ~db.reachable THEN ConnectErr(db)
    ELSE Executed(db, query, values, Prepare(db, query))

RECURSIVE StepAll(_, _, _, _)
RECURSIVE StepNext(_, _, _, _)

\* executemany: the statement once for each parameter sequence of batch,
\* in order; n counts the rows changed.  A sequence that does not fit the
\* placeholders ends it
StepAll(db, st, batch, n) ==
    IF batch = <<>> THEN EngineOk(db, <<>>, 0, n)
    ELSE IF Len(Head(batch)) # st.nparams
    THEN BindingsErr(db, st.nparams, Len(Head(batch)))
    ELSE IF Overflows(Head(batch)) THEN OverflowErr(db)
    ELSE StepNext(st, batch, n, Step(db, st, Head(batch)))

\* the rest of batch after the step that answered r; an exception ends it
StepNext(st, batch, n, r) ==
    IF r.exc # "" THEN r
    ELSE StepAll(r.db, st, Tail(batch), n + r.rowcount)

\* the module begins a transaction before a statement it takes for DML;
\* the rollback of the connection's context manager undoes what was done
\* in one, and nothing otherwise
RolledBack(db, query, r) ==
    IF r.exc # "" /\ is_dml(query) THEN [r EXCEPT !.db = db] ELSE r

\* cursor.executemany of the statement prepared as p
ExecutedMany(db, query, batch, p) ==
    IF p.exc # "" THEN EngineErr(db, p.exc, p.msg)
    ELSE IF p.stmt.kind \notin {"insert", "update", "delete"}
    THEN EngineErr(db, "ProgrammingError",
                   "executemany() can only execute DML statements.")
    ELSE RolledBack(db, query,
                    Counted(query, StepAll(db, p.stmt, batch, 0)))

\* sqlite3.connect(...) and cursor.executemany(query, batch)
SqliteExecuteMany(db, query, batch) ==
    IF ~db.reachable THEN ConnectErr(db)
    ELSE ExecutedMany(db, query, batch, Prepare(db, query))

----------------------------------------------------------------------------
(* DatabaseManager.  A call returns                                         *)
(*   [raised, value, db, opened]                                            *)
(* raised: the DatabaseError message ("" when the call returned), value:    *)
(* what it returned, db: the database afterwards, opened: the number of     *)
(* connections the call opened.                                             *)

Raise(db, msg, opened) ==
    [raised |-> msg, value |-> <<>>, db |-> db, opened |-> opened]

Return(db, value, opened) ==
    [raised |-> "", value |-> value, db |-> db, opened |-> opened]

\* the except clauses for sqlite3.OperationalError; other is the prefix of
\* the last branch
OperationalError(db, msg, error_msg, other) ==
    IF Contains(error_msg, "locked")
    THEN Raise(db, "Database is locked - try again later", 1)
    ELSE IF Contains(error_msg, "no such table")
    THEN Raise(db, "Table does not exist: " \o msg, 1)
    ELSE IF Contains(error_msg, "syntax error")
    THEN Raise(db, "SQL syntax error: " \o msg, 1)
    ELSE Raise(db, other \o msg, 1)

\* the exceptions of the sqlite3 module that "except sqlite3.DatabaseError"
\* catches; any other exception reaches "except Exception"
SqliteDatabaseErrors ==
    {"DatabaseError", "IntegrityError", "OperationalError",
     "ProgrammingError", "DataError", "InternalError", "NotSupportedError"}

\* result with the connections the engine call r opened
Connected(r, result) ==
    [result EXCEPT !.opened = IF r.connected THEN 1 ELSE 0]

\* the body of _execute once sqlite3.connect and cursor.execute have
\* answered r; the value returned is the CursorResult [rows, lastrowid,
\* rowcount]
CursorResult(db, query, r) ==
    Connected(r,
    IF r.exc = ""
    THEN Return(r.db,
                [rows |-> IF startswith(StripUpper(query), "SELECT")
                          THEN r.rows ELSE <<>>,
                 lastrowid |-> r.lastrowid,
                 rowcount |-> r.rowcount],
                1)
    ELSE IF r.exc = "IntegrityError"
    THEN Raise(db, "Constraint violation: " \o r.msg, 1)
    ELSE IF r.exc = "OperationalError"
    THEN OperationalError(db, r.msg, lower(r.msg), "Operational error: ")
    ELSE IF r.exc \in SqliteDatabaseErrors
    THEN Raise(db, "Database error: " \o r.msg, 1)
    ELSE Raise(db, "Unexpected error during execution: " \o r.msg, 1))

_execute(db, query, values) ==
    CursorResult(db, query, SqliteExecute(db, query, values))

\* values_list is a Python value [type, items]; a batch item likewise
IsListOfTuples(values_list) ==
    /\ values_list.type = "list"
    /\ \A i \in 1..Len(values_list.items) : values_list.items[i].type = "tuple"

\* the body of insert_many once cursor.executemany has answered r; r.db
\* is the database after the rollback of the connection's context manager
BatchResult(db, r) ==
    Connected(r,
    IF r.exc = "" THEN Return(r.db, r.rowcount, 1)
    ELSE IF r.exc = "IntegrityError"
    THEN Raise(r.db, "Constraint violation: " \o r.msg, 1)
    ELSE IF r.exc = "OperationalError"
    THEN OperationalError(r.db, r.msg, lower(r.msg),
                          "Database operation failed: ")
    ELSE IF r.exc \in SqliteDatabaseErrors
    THEN Raise(r.db, "Database error: " \o r.msg, 1)
    ELSE Raise(r.db, "Unexpected error during batch insert: " \o r.msg, 1))

\* insert_many without the test of the shape of values_list
insert_many_unchecked(db, query, values_list) ==
    IF ~startswith(StripUpper(query), "INSERT")
    THEN Raise(db, "Query must be an INSERT statement", 0)
    ELSE BatchResult(db,
            SqliteExecuteMany(db, query,
                [i \in 1..Len(values_list.items) |->
                    values_list.items[i].items]))

insert_many(db, query, values_list) ==
    IF ~startswith(StripUpper(query), "INSERT")
    THEN Raise(db, "Query must be an INSERT statement", 0)
    ELSE IF ~IsListOfTuples(values_list)
    THEN Raise(db, "Values must be a list of tuples", 0)
    ELSE BatchResult(db,
            SqliteExecuteMany(db, query,
                [i \in 1..Len(values_list.items) |->
                    values_list.items[i].items]))

\* what a method returns from the cursor of _execute: one of its fields,
\* or the DatabaseError _execute raised
Field(cursor, name) ==
    IF cursor.raised # "" THEN cursor
    ELSE Return(cursor.db, cursor.value[name], cursor.opened)

insert(db, query, values) ==
    IF ~startswith(StripUpper(query), "INSERT")
    THEN Raise(db, "Query must be an INSERT statement", 0)
    ELSE Field(_execute(db, query, values), "lastrowid")

select(db, query, values) ==
    IF ~startswith(StripUpper(query), "SELECT")
    THEN Raise(db, "Query must be a SELECT statement", 0)
    ELSE Field(_execute(db, query, values), "rows")

update(db, query, values) ==
    IF ~startswith(StripUpper(query), "UPDATE")
    THEN Raise(db, "Query must be an UPDATE statement", 0)
    ELSE Field(_execute(db, query, values), "rowcount")

delete(db, query, values) ==
    IF ~startswith(StripUpper(query), "DELETE")
    THEN Raise(db, "Query must be a DELETE statement", 0)
    ELSE Field(_execute(db, query, values), "rowcount")

\* len(result) > 0, or the DatabaseError select raised
NonEmpty(result) ==
    IF result.raised # "" THEN result
    ELSE Return(result.db, Len(result.value) > 0, result.opened)

table_exists(db, table_name) ==
    IF table_name = "" \/ strip(table_name) = ""
    THEN Raise(db, "Table name cannot be empty", 0)
    ELSE IF ~isalnum(replace(replace(table_name, "_", ""), "-", ""))
    THEN Raise(db, "Table name contains invalid characters", 0)
    ELSE NonEmpty(select(db, SqlTableExists, <<strip(table_name)>>))

\* r with the connections an earlier call opened counted in
After(opened, r) == [r EXCEPT !.opened = @ + opened]

\* the body of get_table_info once table_exists has answered
TableInfo(table_name, exists) ==
    IF exists.raised # "" THEN exists
    ELSE IF ~exists.value
    THEN Raise(exists.db, "Table '" \o table_name \o "' does not exist",
               exists.opened)
    ELSE After(exists.opened,
               select(exists.db, "PRAGMA table_info(" \o table_name \o ")",
                      <<>>))

get_table_info(db, table_name) ==
    TableInfo(table_name, table_exists(db, table_name))

----------------------------------------------------------------------------
(* auth_service: the credential store.  create_user and authenticate_user  *)
(* are given statement by statement: each get_user and the insert is a     *)
(* call of its own on the database as it is at that moment.                *)

\* the salts bcrypt may draw; a hash is "$2b$" salt "$" digest
Salts == {"s1", "s2"}

\* passlib refuses a secret longer than this (PasswordSizeError)
MAX_PASSWORD_SIZE == 4096

\* the characters of a password the bcrypt digest depends on
BcryptSize == 72

\* the bcrypt hash of a password under a salt.  A password with a character
\* outside Ascii (its bytes depend on the encoding, and bcrypt refuses a
\* NUL) and one of more than BcryptSize characters (truncated or refused,
\* by the version of bcrypt) have none in the model
Digest(password, salt) ==
    IF Span(password, 1, Ascii) <= Len(password)
    THEN Undefined(<<"bcrypt of a character outside Ascii", password>>)
    ELSE IF Len(password) > BcryptSize
    THEN Undefined(<<"bcrypt of more than 72 characters", Len(password)>>)
    ELSE "$2b$" \o salt \o "$" \o password

\* pwd_context.hash: [raised, value]
bcrypt_hash(password, salt) ==
    IF Len(password) > MAX_PASSWORD_SIZE
    THEN [raised |-> TRUE, value |-> ""]
    ELSE [raised |-> FALSE, value |-> Digest(password, salt)]

\* pwd_context.verify: [raised, value]; without a hash it answers False, a
\* string that is no bcrypt hash raises, and so does too long a secret
bcrypt_verify(password, hashed) ==
    IF TypeOf(hashed) = "null" THEN [raised |-> FALSE, value |-> FALSE]
    ELSE IF ~startswith(hashed, "$2b$") \/ Len(hashed) < 7
    THEN [raised |-> TRUE, value |-> FALSE]
    ELSE IF Len(password) > MAX_PASSWORD_SIZE
    THEN [raised |-> TRUE, value |-> FALSE]
    ELSE [raised |-> FALSE,
          value |-> hashed = Digest(password, SubSeq(hashed, 5, 6))]

verify_password(plain_password, hashed_password) ==
    LET r == bcrypt_verify(plain_password, hashed_password)
    IN  IF r.raised THEN FALSE ELSE r.value

\* the body of get_user once select has answered r: the user dict, or
\* None when no row matched or the select raised
UserOf(r) ==
    IF r.raised # "" THEN None
    ELSE IF r.value = <<>> THEN None
    ELSE [username |-> r.value[1].username,
          hashed_password |-> r.value[1].hashed_password]

get_user(db, username) == UserOf(select(db, SqlSelectUser, <<username>>))

\* the name the while loop of create_user tries with suffix
Suffixed(base_username, suffix) == base_username \o ToString(suffix)

\* InsertUser replacing the credential of a stored username
ReplaceUser(db, username, hashed) ==
    IF \E i \in 1..Len(db.users) : db.users[i].username = username
    THEN update(db, SqlUpdateUser, <<hashed, username>>)
    ELSE insert(db, SqlInsertUser, <<username, hashed>>)

\* manager.insert of create_user: [raised, value, db, opened]
InsertUser(db, username, hashed) ==
    insert(db, SqlInsertUser, <<username, hashed>>)

\* Created naming the submitted username, not the one stored
CreatedAsSubmitted(inserted_id, username, submitted) ==
    [id |-> inserted_id, username |-> submitted]

\* the dict create_user returns once manager.insert returned inserted_id
\* for username
Created(inserted_id, username, submitted) ==
    [id |-> inserted_id, username |-> username]

NoExc == [status |-> 0, detail |-> ""]
HTTPException(status, detail) == [status |-> status, detail |-> detail]

\* Authenticated telling an unknown username from a wrong password
AuthenticatedEnumerating(username, password, user) ==
    IF user = None
    THEN [exc |-> HTTPException(404, "User not found"), value |-> None]
    ELSE IF ~verify_password(password, user.hashed_password)
    THEN [exc |-> HTTPException(401, "Invalid username or password"),
          value |-> None]
    ELSE [exc |-> NoExc, value |-> [username |-> username]]

\* the body of authenticate_user once get_user has answered user;
\* [exc, value]: value is {"username": username} when exc = NoExc
Authenticated(username, password, user) ==
    IF user = None
    THEN [exc |-> HTTPException(401, "Invalid username or password"),
          value |-> None]
    ELSE IF ~verify_password(password, user.hashed_password)
    THEN [exc |-> HTTPException(401, "Invalid username or password"),
          value |-> None]
    ELSE [exc |-> NoExc, value |-> [username |-> username]]

\* authenticate_user makes one call of the store, that of get_user
authenticate_user(db, username, password) ==
    Authenticated(username, password, get_user(db, username))

----------------------------------------------------------------------------
(* jwt_handler: the token service.  A token is [payload, key]: the claims  *)
(* and the key that signed them.                                           *)

SECRET_KEY == "secret"

ACCESS_TOKEN_EXPIRE_MINUTES == 30
DefaultAccessMinutes == 15
RefreshDays == 7

Minutes(n) == n * 60
Days(n) == n * 24 * 60 * 60

NoClaims == [k \in {} |-> ""]
NoToken == [payload |-> NoClaims, key |-> ""]

jwt_encode(claims, key) == [payload |-> claims, key |-> key]

\* jwt_decode that does not look at exp
jwt_decode_no_expiry(token, key, t) ==
    IF token.key # key
    THEN [raised |-> TRUE, payload |-> NoClaims]
    ELSE [raised |-> FALSE, payload |-> token.payload]

\* jose.jwt.decode: [raised, payload]; JWTError on a bad signature or an
\* exp earlier than the clock
jwt_decode(token, key, t) ==
    IF token.key # key
    THEN [raised |-> TRUE, payload |-> NoClaims]
    ELSE IF "exp" \in DOMAIN token.payload /\ token.payload.exp < t
    THEN [raised |-> TRUE, payload |-> NoClaims]
    ELSE [raised |-> FALSE, payload |-> token.payload]

\* dict.get(k): the value, or None
Get(payload, k) == IF k \in DOMAIN payload THEN payload[k] ELSE "<None>"

\* expires_delta in seconds, 0 for None (both are falsy)
create_access_token(data, expires_delta, t) ==
    LET expire == t + (IF expires_delta # 0 THEN expires_delta
                       ELSE Minutes(DefaultAccessMinutes))
    IN  jwt_encode([exp |-> expire] @@ data, SECRET_KEY)

decode_token(token, t) ==
    LET r == jwt_decode(token, SECRET_KEY, t)
    IN  IF r.raised THEN None ELSE r.payload

get_current_user(token, t) ==
    LET payload == decode_token(token, t) IN
    IF payload = None \/ Get(payload, "type") # "access"
       \/ "sub" \notin DOMAIN payload
    THEN [exc |-> HTTPException(401, "Invalid authentication credentials"),
          value |-> None]
    ELSE [exc |-> NoExc, value |-> [username |-> payload.sub]]

create_refresh_token(data, expires_delta, t) ==
    LET expire == t + (IF expires_delta # 0 THEN expires_delta
                       ELSE Days(RefreshDays))
    IN  jwt_encode([exp |-> expire] @@ ([type |-> "refresh"] @@ data),
                   SECRET_KEY)

\* verify_refresh_token without the check of the type claim
verify_refresh_token_any_type(token, t) ==
    LET r == jwt_decode(token, SECRET_KEY, t) IN
    IF r.raised
    THEN [exc |-> HTTPException(401, "Invalid or expired refresh token"),
          value |-> None]
    ELSE IF "sub" \notin DOMAIN r.payload
    THEN [exc |-> HTTPException(401, "Invalid token payload"), value |-> None]
    ELSE [exc |-> NoExc, value |-> r.payload]

verify_refresh_token(token, t) ==
    LET r == jwt_decode(token, SECRET_KEY, t) IN
    IF r.raised
    THEN [exc |-> HTTPException(401, "Invalid or expired refresh token"),
          value |-> None]
    ELSE IF Get(r.payload, "type") # "refresh"
    THEN [exc |-> HTTPException(401, "Invalid token type"), value |-> None]
    ELSE IF "sub" \notin DOMAIN r.payload
    THEN [exc |-> HTTPException(401, "Invalid token payload"), value |-> None]
    ELSE [exc |-> NoExc, value |-> r.payload]

----------------------------------------------------------------------------
(* routes/auth.py and routes/health.py.  A route answers                   *)
(* [status, detail, access_token, refresh_token, principal, body].         *)

\* no HealthResponse in the response
NoBody == [status |-> "", message |-> ""]

Response(status, detail) ==
    [status |-> status, detail |-> detail, access_token |-> NoToken,
     refresh_token |-> NoToken, principal |-> "", body |-> NoBody]

Failure(exc) == Response(exc.status, exc.detail)

TokenResponse(access_token, refresh_token) ==
    [Response(200, "") EXCEPT !.access_token = access_token,
                              !.refresh_token = refresh_token]

\* register when create_user returned None
NotCreated == Failure(HTTPException(400, "User already exists"))

\* the first create_access_token of register and login, read off the clock
\* at t
AccessTokenFor(username, t) ==
    create_access_token([sub |-> username, type |-> "access"],
                        Minutes(ACCESS_TOKEN_EXPIRE_MINUTES), t)

\* their second create_access_token, read off the clock at t
RefreshTokenFor(username, t) ==
    create_access_token([sub |-> username, type |-> "refresh"],
                        Days(RefreshDays), t)

\* the body of login once authenticate_user has answered: the exception
\* the route raises, NoExc when it goes on to issue the tokens
LoginRefusal(user) ==
    IF user.exc # NoExc THEN user.exc
    ELSE IF user.value = None
    THEN HTTPException(401, "Invalid username or password")
    ELSE NoExc

\* GET /protected once get_current_user has answered
protected_route(current_user) ==
    IF current_user.exc # NoExc THEN Failure(current_user.exc)
    ELSE [Response(200, "") EXCEPT !.principal = current_user.value.username]

\* refresh_token rotating the refresh token instead of echoing it
refresh_token_rotating(username, token, t) ==
    TokenResponse(AccessTokenFor(username, t), RefreshTokenFor(username, t))

\* POST /refresh after verify_refresh_token returned the payload of token
\* with sub username: the access token is read off the clock at t
refresh_token(username, token, t) ==
    TokenResponse(AccessTokenFor(username, t), token)

\* the dict check_health builds once manager.select("SELECT 1") answered r
HealthOf(r) ==
    IF r.raised # ""
    THEN [status |-> "error",
          message |-> "Database connection failed: " \o r.raised]
    ELSE [status |-> "ok",
          message |-> "API is healthy and database is connected."]

check_health(db) == HealthOf(select(db, SqlSelectOne, <<>>))

\* GET /health once check_health returned: a dict is never falsy and
\* HealthResponse accepts it, so nothing is raised in the try
health(checked) == [Response(200, "") EXCEPT !.body = checked]

----------------------------------------------------------------------------
(* State machine.  A request is served in steps, one for each call of the  *)
(* store and each reading of the clock, in the order of the code; what     *)
(* happens between two steps of a request is up to the specification: the  *)
(* clock may advance, the store may become locked, connections may be      *)
(* collected and, under RaceSpec, other requests take their steps.         *)

\* the database file as the handlers find it
Db ==
    [users |-> users, tables |-> tables, locked |-> locked,
     reachable |-> reachable]

Usernames == {"al", "al1"}
Passwords == {"p1", "p2"}

\* the instants the clock is read at
Instants ==
    {0,
     Minutes(ACCESS_TOKEN_EXPIRE_MINUTES),
     Minutes(ACCESS_TOKEN_EXPIRE_MINUTES) + 1,
     Days(RefreshDays) + 1}

\* claims a caller of the token service may pass
TokenData ==
    {[sub |-> "al", type |-> "access"], [sub |-> "al"], [type |-> "access"]}

\* tokens not signed with SECRET_KEY, and a string that is no token
ForgedTokens ==
    {jwt_encode([sub |-> "al", type |-> ty, exp |-> 2 * Days(RefreshDays)],
                "attacker") : ty \in {"access", "refresh"}}
    \cup {NoToken}

\* what a client can present: the tokens of the last response, or a forgery
Presentable ==
    ({resp.access_token, resp.refresh_token} \ {NoToken}) \cup ForgedTokens

\* no exchange yet.  at: the instant the request arrived, at which a
\* presented token is verified; issued: the instant the access token of
\* the response was created
NoExchange ==
    [op |-> "none", username |-> "", password |-> "", presented |-> NoToken,
     status |-> 0, detail |-> "", access_token |-> NoToken,
     refresh_token |-> NoToken, principal |-> "", at |-> 0, issued |-> 0,
     body |-> NoBody]

NoCall ==
    [method |-> "none", query |-> "", raised |-> "", value |-> <<>>,
     opened |-> 0]

\* the threads serving requests
Requests == 1..MaxRequests

\* a thread with no request.  submitted: the username of the request,
\* username: the local variable of create_user, then user["username"];
\* before: the rows of users when the request arrived
Idle ==
    [pc |-> "idle", op |-> "none", submitted |-> "", username |-> "",
     password |-> "", hashed |-> "", suffix |-> 0, presented |-> NoToken,
     before |-> <<>>, at |-> 0, issued |-> 0, access |-> NoToken]

\* a request as it arrives
Request(op, username, password, presented) ==
    [Idle EXCEPT !.op = op, !.submitted = username, !.username = username,
                 !.password = password, !.presented = presented,
                 !.before = users, !.at = now]

InFlight == Cardinality({r \in Requests : reqs[r].pc # "idle"})

\* the CSV files of data/raw the ETL code names
CsvFiles == {"nvidia_stock.csv", "nvidia_stock_max.csv"}

\* the ETL entry point not started, over an empty data directory and a
\* database without the nvidia_stock table
NoRun ==
    [pc |-> "start", df |-> "none", load |-> "not run", read |-> "none",
     csv |-> "none", files |-> [f \in CsvFiles |-> "absent"],
     table |-> "absent"]

\* the state at start-up over a database file holding the tables t
InitOn(t) ==
    /\ users = <<>>
    /\ tables = t
    /\ locked = FALSE
    /\ now = 0
    /\ resp = NoExchange
    /\ registered = {}
    /\ dbcall = NoCall
    /\ connections = 0
    /\ reachable = TRUE
    /\ reqs = [r \in Requests |-> Idle]

Init == InitOn({"users"}) /\ etl = NoRun

\* request q of thread r goes on to the step pc
Continue(r, q, pc) ==
    /\ reqs' = [reqs EXCEPT ![r] = [q EXCEPT !.pc = pc]]
    /\ UNCHANGED <<resp, registered>>

\* request q of thread r is answered result
Answer(r, q, result) ==
    /\ resp' = [op |-> q.op, username |-> q.submitted,
                password |-> q.password, presented |-> q.presented,
                status |-> result.status, detail |-> result.detail,
                access_token |-> result.access_token,
                refresh_token |-> result.refresh_token,
                principal |-> result.principal, at |-> q.at,
                issued |-> q.issued, body |-> result.body]
    /\ registered' = IF q.op = "register" /\ result.status = 200
                     THEN registered \cup {<<q.submitted, q.password>>}
                     ELSE registered
    /\ reqs' = [reqs EXCEPT ![r] = Idle]

\* create_user after pwd_context.verify answered same for the existing user
Verified(r, q, same) ==
    IF same.raised \/ same.value
    THEN Answer(r, q, NotCreated)
    ELSE Continue(r, [q EXCEPT !.suffix = 1], "probe")

\* create_user after its first get_user answered existing_user and
\* pwd_context.hash answered hashed
LookedUp(r, q, existing_user, hashed) ==
    IF hashed.raised THEN Answer(r, q, NotCreated)
    ELSE IF existing_user = None
    THEN Continue(r, [q EXCEPT !.hashed = hashed.value], "insert")
    ELSE Verified(r, [q EXCEPT !.hashed = hashed.value],
                  bcrypt_verify(q.password, existing_user.hashed_password))

\* POST /register up to the end of the first statements of create_user:
\* the SELECT of get_user(username), the hash and the verify
Register(r, username, password) ==
    /\ reqs[r].pc = "idle"
    /\ \E salt \in Salts :
        LookedUp(r, Request("register", username, password, NoToken),
                 get_user(Db, username), bcrypt_hash(password, salt))
    /\ connections' = connections
                        + select(Db, SqlSelectUser, <<username>>).opened
    /\ UNCHANGED <<users, tables, locked, now, dbcall, reachable, etl>>

\* Probed taking the first suffix whatever get_user answered
ProbedOnce(r, q, found) ==
    Continue(r, [q EXCEPT !.username = Suffixed(q.submitted, q.suffix)],
             "insert")

\* the while loop after get_user(base_username + suffix) answered found
Probed(r, q, found) ==
    IF found # None
    THEN Continue(r, [q EXCEPT !.suffix = @ + 1], "probe")
    ELSE Continue(r, [q EXCEPT !.username = Suffixed(q.submitted, q.suffix)],
                  "insert")

\* one turn of the while loop: the SELECT of get_user for the next suffix
ProbeSuffix(r) ==
    /\ reqs[r].pc = "probe"
    /\ Probed(r, reqs[r],
              get_user(Db, Suffixed(reqs[r].submitted, reqs[r].suffix)))
    /\ connections' = connections
                        + select(Db, SqlSelectUser,
                                 <<Suffixed(reqs[r].submitted,
                                            reqs[r].suffix)>>).opened
    /\ UNCHANGED <<users, tables, locked, now, dbcall, reachable, etl>>

\* create_user and register after manager.insert answered result
Inserted(r, q, result) ==
    /\ users' = result.db.users
    /\ connections' = connections + result.opened
    /\ IF result.raised # "" THEN Answer(r, q, NotCreated)
       ELSE Continue(r, [q EXCEPT
                            !.username = Created(result.value, q.username,
                                                 q.submitted).username],
                     "access")

\* the last statement of create_user: the INSERT
InsertRow(r) ==
    /\ reqs[r].pc = "insert"
    /\ Inserted(r, reqs[r], InsertUser(Db, reqs[r].username, reqs[r].hashed))
    /\ UNCHANGED <<tables, locked, now, dbcall, reachable, etl>>

\* login after authenticate_user answered user
LoggedIn(r, q, user) ==
    IF LoginRefusal(user) # NoExc
    THEN Answer(r, q, Failure(LoginRefusal(user)))
    ELSE Continue(r, [q EXCEPT !.username = user.value.username], "access")

\* POST /login up to the end of authenticate_user
Login(r, username, password) ==
    /\ reqs[r].pc = "idle"
    /\ LoggedIn(r, Request("login", username, password, NoToken),
                authenticate_user(Db, username, password))
    /\ connections' = connections
                        + select(Db, SqlSelectUser, <<username>>).opened
    /\ UNCHANGED <<users, tables, locked, now, dbcall, reachable, etl>>

\* register and login: access_token = create_access_token(...)
CreateAccessToken(r) ==
    /\ reqs[r].pc = "access"
    /\ Continue(r, [reqs[r] EXCEPT
                        !.access = AccessTokenFor(reqs[r].username, now),
                        !.issued = now],
                "refresh")
    /\ UNCHANGED <<users, tables, locked, now, dbcall, connections,
                   reachable, etl>>

\* register and login: refresh_token = create_access_token(...), and the
\* TokenResponse
CreateRefreshToken(r) ==
    /\ reqs[r].pc = "refresh"
    /\ Answer(r, reqs[r],
              TokenResponse(reqs[r].access,
                            RefreshTokenFor(reqs[r].username, now)))
    /\ UNCHANGED <<users, tables, locked, now, dbcall, connections,
                   reachable, etl>>

\* GET /protected
Protected(r, token) ==
    /\ reqs[r].pc = "idle"
    /\ Answer(r, Request("protected", "", "", token),
              protected_route(get_current_user(token, now)))
    /\ UNCHANGED <<users, tables, locked, now, dbcall, connections,
                   reachable, etl>>

\* refresh_token after verify_refresh_token answered verified
VerifiedRefresh(r, q, verified) ==
    IF verified.exc # NoExc THEN Answer(r, q, Failure(verified.exc))
    ELSE Continue(r, [q EXCEPT !.username = verified.value.sub], "reissue")

\* POST /refresh up to the end of verify_refresh_token
Refresh(r, token) ==
    /\ reqs[r].pc = "idle"
    /\ VerifiedRefresh(r, Request("refresh", "", "", token),
                       verify_refresh_token(token, now))
    /\ UNCHANGED <<users, tables, locked, now, dbcall, connections,
                   reachable, etl>>

\* refresh_token: new_access_token = create_access_token(...), and the
\* TokenResponse
Reissue(r) ==
    /\ reqs[r].pc = "reissue"
    /\ Answer(r, [reqs[r] EXCEPT !.issued = now],
              refresh_token(reqs[r].username, reqs[r].presented, now))
    /\ UNCHANGED <<users, tables, locked, now, dbcall, connections,
                   reachable, etl>>

\* a direct call of create_access_token(data) with the default lifetime
IssueAccessToken(data) ==
    /\ resp' = [NoExchange EXCEPT !.op = "create_access_token", !.status = 200,
                    !.access_token = create_access_token(data, 0, now),
                    !.at = now, !.issued = now]
    /\ UNCHANGED <<users, tables, locked, now, registered, dbcall,
                   connections, reachable, reqs, etl>>

\* a direct call of create_refresh_token(data) with the default lifetime
IssueRefreshToken(data) ==
    /\ resp' = [NoExchange EXCEPT !.op = "create_refresh_token", !.status = 200,
                    !.refresh_token = create_refresh_token(data, 0, now),
                    !.at = now]
    /\ UNCHANGED <<users, tables, locked, now, registered, dbcall,
                   connections, reachable, reqs, etl>>

Tick ==
    /\ \E t \in Instants : t > now /\ now' = t
    /\ UNCHANGED <<users, tables, locked, resp, registered, dbcall,
                   connections, reachable, reqs, etl>>

\* the Connection objects the calls leave behind are closed when they are
\* deallocated, some of them at a time and at any moment; nothing else in
\* the program closes a connection
CollectGarbage ==
    /\ \E n \in 1..connections : connections' = connections - n
    /\ UNCHANGED <<users, tables, locked, now, resp, registered, dbcall,
                   reachable, reqs, etl>>

\* at most MaxConnections connections are open at a time
Bounded == connections' <= MaxConnections

\* the credential flows, one request at a time
Next ==
    \/ \E u \in Usernames, p \in Passwords :
        Len(users) < MaxUsers /\ Register(1, u, p) /\ Bounded
    \/ \E u \in Usernames, p \in Passwords : Login(1, u, p) /\ Bounded
    \/ ProbeSuffix(1) /\ Bounded
    \/ InsertRow(1) /\ Bounded
    \/ CreateAccessToken(1)
    \/ CreateRefreshToken(1)
    \/ CollectGarbage

Spec == Init /\ [][Next]_vars

\* the token flows, one request at a time, over the accounts of at most
\* MaxHolders users
TokenNext ==
    \/ \E u \in Usernames, p \in Passwords :
        Len(users) < MaxHolders /\ Register(1, u, p) /\ Bounded
    \/ \E u \in Usernames, p \in Passwords : Login(1, u, p) /\ Bounded
    \/ InsertRow(1) /\ Bounded
    \/ CreateAccessToken(1)
    \/ CreateRefreshToken(1)
    \/ CollectGarbage
    \/ \E token \in Presentable : Protected(1, token)
    \/ \E token \in Presentable : Refresh(1, token)
    \/ Reissue(1)
    \/ \E data \in TokenData : IssueAccessToken(data)
    \/ \E data \in TokenData : IssueRefreshToken(data)
    \/ Tick

TokenSpec == Init /\ [][TokenNext]_vars

----------------------------------------------------------------------------
(* The store failing: the database file may lack the users table, another  *)
(* process may hold its lock past the timeout, and a password may be too   *)
(* long for passlib.                                                       *)

FaultInit == (\E t \in SUBSET {"users"} : InitOn(t)) /\ etl = NoRun

RECURSIVE Doubled(_, _)
\* s doubled n times
Doubled(s, n) == IF n = 0 THEN s ELSE Doubled(s \o s, n - 1)

\* a password of MAX_PASSWORD_SIZE + 1 characters
LongPassword == Doubled("p", 12) \o "p"

LockDatabase ==
    /\ ~locked
    /\ locked' = TRUE
    /\ UNCHANGED <<users, tables, now, resp, registered, dbcall, connections,
                   reachable, reqs, etl>>

UnlockDatabase ==
    /\ locked
    /\ locked' = FALSE
    /\ UNCHANGED <<users, tables, now, resp, registered, dbcall, connections,
                   reachable, reqs, etl>>

\* the database file becomes impossible to open (its directory is gone or
\* unreadable), and possible again
LoseDatabase ==
    /\ reachable
    /\ reachable' = FALSE
    /\ UNCHANGED <<users, tables, locked, now, resp, registered, dbcall,
                   connections, reqs, etl>>

RestoreDatabase ==
    /\ ~reachable
    /\ reachable' = TRUE
    /\ UNCHANGED <<users, tables, locked, now, resp, registered, dbcall,
                   connections, reqs, etl>>

\* health after the dependency get_current_user answered current_user
Depended(r, q, current_user) ==
    IF current_user.exc # NoExc THEN Answer(r, q, Failure(current_user.exc))
    ELSE Continue(r, [q EXCEPT !.username = current_user.value.username],
                  "check_health")

\* GET /api/v1/health/ with a bearer token, up to the end of the
\* dependency get_current_user
Health(r, token) ==
    /\ reqs[r].pc = "idle"
    /\ Depended(r, Request("health", "", "", token),
                get_current_user(token, now))
    /\ UNCHANGED <<users, tables, locked, now, dbcall, connections,
                   reachable, etl>>

\* the body of health: check_health() and the HealthResponse
CheckHealth(r) ==
    /\ reqs[r].pc = "check_health"
    /\ Answer(r, reqs[r], health(check_health(Db)))
    /\ connections' = connections + select(Db, SqlSelectOne, <<>>).opened
    /\ UNCHANGED <<users, tables, locked, now, dbcall, reachable, etl>>

FaultNext ==
    \/ \E u \in Usernames, p \in Passwords \cup {LongPassword} :
        Len(users) < MaxHolders /\ Register(1, u, p) /\ Bounded
    \/ \E u \in Usernames, p \in Passwords : Login(1, u, p) /\ Bounded
    \/ InsertRow(1) /\ Bounded
    \/ CreateAccessToken(1)
    \/ CreateRefreshToken(1)
    \/ \E token \in Presentable : Health(1, token)
    \/ CheckHealth(1) /\ Bounded
    \/ CollectGarbage
    \/ LockDatabase
    \/ UnlockDatabase
    \/ LoseDatabase
    \/ RestoreDatabase

FaultSpec == FaultInit /\ [][FaultNext]_vars

\* every operation the API exposes, one request at a time, over a store
\* that may be locked
ApiNext ==
    \/ \E u \in Usernames, p \in Passwords :
        Len(users) < MaxUsers - 1 /\ Register(1, u, p) /\ Bounded
    \/ \E u \in Usernames, p \in Passwords : Login(1, u, p) /\ Bounded
    \/ ProbeSuffix(1) /\ Bounded
    \/ InsertRow(1) /\ Bounded
    \/ CreateAccessToken(1)
    \/ CreateRefreshToken(1)
    \/ \E token \in Presentable : Protected(1, token)
    \/ \E token \in Presentable : Refresh(1, token)
    \/ Reissue(1)
    \/ \E token \in Presentable : Health(1, token)
    \/ CheckHealth(1) /\ Bounded
    \/ CollectGarbage
    \/ LockDatabase
    \/ UnlockDatabase

ApiSpec == Init /\ [][ApiNext]_vars

----------------------------------------------------------------------------
(* Direct calls of the DatabaseManager methods *)

\* values arguments
DbValues ==
    << <<>>, <<"al">>, <<"al", "$2b$s1$p1">>, <<"$2b$s2$p2", "al">> >>

\* values arguments of insert; the last holds an int sqlite3 cannot store
DbInsertValues == Append(DbValues, <<"al", TooLarge>>)

PyList(items) == [type |-> "list", items |-> items]
PyTuple(items) == [type |-> "tuple", items |-> items]

\* values_list arguments: well-shaped, ragged, a list of lists, a tuple,
\* and a batch with an int sqlite3 cannot store
DbBatches ==
    << PyList(<<>>),
       PyList(<<PyTuple(<<"al", "$2b$s1$p1">>)>>),
       PyList(<<PyTuple(<<"al", TooLarge>>)>>),
       PyList(<<PyTuple(<<"al", "$2b$s1$p1">>), PyTuple(<<"al1">>)>>),
       PyList(<<PyList(<<"al", "$2b$s1$p1">>)>>),
       PyTuple(<<PyTuple(<<"al", "$2b$s1$p1">>)>>) >>

TableNames ==
    {"users", "USERS", "nvidia_stock", "", "  ", "", "_", "no-such_1",
     "users; DROP", " users"}

Called(method, query, r) ==
    [method |-> method, query |-> query, raised |-> r.raised,
     value |-> r.value, opened |-> r.opened]

\* the effect of a direct call answered r
DbDone(method, query, r) ==
    /\ dbcall' = Called(method, query, r)
    /\ users' = r.db.users
    /\ connections' = connections + r.opened
    /\ UNCHANGED <<tables, locked, now, resp, registered, reachable, reqs,
                   etl>>

DbSelect(query, values) == DbDone("select", query, select(Db, query, values))

DbInsert(query, values) == DbDone("insert", query, insert(Db, query, values))

DbUpdate(query, values) == DbDone("update", query, update(Db, query, values))

DbDelete(query, values) == DbDone("delete", query, delete(Db, query, values))

DbInsertMany(query, values_list) ==
    DbDone("insert_many", query, insert_many(Db, query, values_list))

DbTableExists(table_name) ==
    DbDone("table_exists", table_name, table_exists(Db, table_name))

DbGetTableInfo(table_name) ==
    DbDone("get_table_info", table_name, get_table_info(Db, table_name))

DbNext ==
    \/ \E q \in DbQueries, i \in DOMAIN DbValues :
        DbSelect(q, DbValues[i]) /\ Bounded
    \/ \E q \in DbQueries, i \in DOMAIN DbInsertValues :
        Len(users) < MaxUsers /\ DbInsert(q, DbInsertValues[i]) /\ Bounded
    \/ \E q \in DbQueries, i \in DOMAIN DbValues :
        DbUpdate(q, DbValues[i]) /\ Bounded
    \/ \E q \in DbQueries, i \in DOMAIN DbValues :
        DbDelete(q, DbValues[i]) /\ Bounded
    \/ \E q \in DbQueries, i \in DOMAIN DbBatches :
        Len(users) < MaxUsers - 1 /\ DbInsertMany(q, DbBatches[i]) /\ Bounded
    \/ \E n \in TableNames : DbTableExists(n) /\ Bounded
    \/ \E n \in TableNames : DbGetTableInfo(n) /\ Bounded
    \/ CollectGarbage

DbSpec == Init /\ [][DbNext]_vars

\* batch inserts alone
BatchNext ==
    \/ \E q \in DbQueries, i \in DOMAIN DbBatches :
        Len(users) < MaxUsers - 1 /\ DbInsertMany(q, DbBatches[i]) /\ Bounded
    \/ CollectGarbage

BatchSpec == Init /\ [][BatchNext]_vars

----------------------------------------------------------------------------
(* Concurrent Register requests.  The server runs each request on a thread *)
(* of its own; create_user makes one DatabaseManager call per statement,   *)
(* each on a connection of its own with no transaction around them, so     *)
(* the requests interleave between statements.                             *)

RaceNext ==
    \/ \E r \in Requests, u \in Usernames, p \in Passwords :
        Len(users) + InFlight < MaxUsers /\ Register(r, u, p) /\ Bounded
    \/ \E r \in Requests : ProbeSuffix(r) /\ Bounded
    \/ \E r \in Requests : InsertRow(r) /\ Bounded
    \/ \E r \in Requests : CreateAccessToken(r)
    \/ \E r \in Requests : CreateRefreshToken(r)
    \/ CollectGarbage

RaceSpec == Init /\ [][RaceNext]_vars

----------------------------------------------------------------------------
(* The ETL entry point setup/run_etl_nvidia.py.  A DataFrame, the content  *)
(* of a CSV file and the content of table nvidia_stock are named by the    *)
(* download they come from; "old" is what an earlier run or the            *)
(* extractor's own entry point left behind, "empty" a table without rows.  *)
(* The loader's statements on the table are committed one by one, and      *)
(* each of them fails while another process holds the lock of the file.    *)

\* what nvidia.history can return in a run
Downloads == {"d1", "d2"}

CSV_PATH == "nvidia_stock_max.csv"

\* extract_nvidia_data: the DataFrame, or "none" when history is empty
extract_nvidia_data(history) == IF history = "empty" THEN "none" ELSE history

\* save_data(data, path): the files after data.to_csv
save_data(files, data, path) == [files EXCEPT ![path] = data]

\* data/raw and the table as earlier runs may have left them
EtlInit ==
    /\ InitOn({"users"})
    /\ \E f \in [CsvFiles -> {"absent", "old"}], t \in {"absent", "old"} :
        etl = [NoRun EXCEPT !.files = f, !.table = t]

\* df = extract_nvidia_data(period="max", interval="1d")
Extract ==
    /\ etl.pc = "start"
    /\ \E history \in Downloads \cup {"empty"} :
        etl' = [etl EXCEPT !.pc = "extracted",
                           !.df = extract_nvidia_data(history)]
    /\ UNCHANGED <<users, tables, locked, now, resp, registered, dbcall,
                   connections, reachable, reqs>>

\* if df is not None: save_data(df, "nvidia_stock.csv")
Save ==
    /\ etl.pc = "extracted"
    /\ etl' = [etl EXCEPT
                !.pc = "saved",
                !.files = IF etl.df # "none"
                          THEN save_data(@, etl.df, "nvidia_stock.csv")
                          ELSE @]
    /\ UNCHANGED <<users, tables, locked, now, resp, registered, dbcall,
                   connections, reachable, reqs>>

\* load_csv_to_sqlite raised: the entry point logs it and the run ends
LoadFailed(run) == [run EXCEPT !.pc = "done", !.load = "failed"]

\* a statement of the loader on the table: it raises when the file is
\* locked, and otherwise leaves the table as content and goes on to pc
Statement(pc, content) ==
    /\ etl' = IF locked THEN LoadFailed(etl)
              ELSE [etl EXCEPT !.pc = pc, !.table = content]
    /\ UNCHANGED <<users, tables, locked, now, resp, registered, dbcall,
                   connections, reachable, reqs>>

\* try: load_csv_to_sqlite(), whatever the extraction gave; its first
\* statement is read_csv(csv_path), which raises on a missing file
ReadCsv(csv_path) ==
    /\ etl.pc = "saved"
    /\ etl' = IF etl.files[csv_path] = "absent"
              THEN LoadFailed(etl)
              ELSE [etl EXCEPT !.pc = "read", !.load = "running",
                               !.read = csv_path,
                               !.csv = etl.files[csv_path]]
    /\ UNCHANGED <<users, tables, locked, now, resp, registered, dbcall,
                   connections, reachable, reqs>>

\* create_table_if_not_exists: DROP TABLE IF EXISTS nvidia_stock
DropTable == etl.pc = "read" /\ Statement("dropped", "absent")

\* create_table_if_not_exists: CREATE TABLE IF NOT EXISTS nvidia_stock
CreateTable == etl.pc = "dropped" /\ Statement("created", "empty")

\* df.to_sql(if_exists="replace"): the table exists and is dropped
ToSqlDrop == etl.pc = "created" /\ Statement("replacing", "absent")

\* df.to_sql: the table is created from the columns of the DataFrame
ToSqlCreate == etl.pc = "replacing" /\ Statement("filling", "empty")

\* df.to_sql: the rows are inserted, then conn.commit() and conn.close();
\* a failed insert is rolled back
ToSqlInsert ==
    /\ etl.pc = "filling"
    /\ etl' = IF locked THEN LoadFailed(etl)
              ELSE [etl EXCEPT !.pc = "done", !.load = "ok",
                               !.table = etl.csv]
    /\ UNCHANGED <<users, tables, locked, now, resp, registered, dbcall,
                   connections, reachable, reqs>>

\* the entry point is run again over what the last run left
RunAgain ==
    /\ etl.pc = "done"
    /\ etl' = [etl EXCEPT !.pc = "start", !.df = "none", !.load = "not run",
                          !.read = "none", !.csv = "none"]
    /\ UNCHANGED <<users, tables, locked, now, resp, registered, dbcall,
                   connections, reachable, reqs>>

\* the extractor run as a script of its own, between runs of the entry
\* point: it saves what it downloads, if anything, as nvidia_stock_max.csv
RunExtractor ==
    /\ etl.pc \in {"start", "done"}
    /\ \E history \in Downloads \cup {"empty"} :
        etl' = [etl EXCEPT
                 !.files = IF extract_nvidia_data(history) # "none"
                           THEN save_data(@, extract_nvidia_data(history),
                                          "nvidia_stock_max.csv")
                           ELSE @]
    /\ UNCHANGED <<users, tables, locked, now, resp, registered, dbcall,
                   connections, reachable, reqs>>

EtlNext ==
    \/ Extract
    \/ Save
    \/ ReadCsv(CSV_PATH)
    \/ DropTable
    \/ CreateTable
    \/ ToSqlDrop
    \/ ToSqlCreate
    \/ ToSqlInsert
    \/ RunAgain
    \/ RunExtractor
    \/ LockDatabase
    \/ UnlockDatabase

EtlSpec == EtlInit /\ [][EtlNext]_vars

----------------------------------------------------------------------------
(* Properties of the credential flows *)

\* some record is stored under the username
Stored(rows, username) == \E i \in 1..Len(rows) : rows[i].username = username

\* the password of a record is the one given: its hash is the bcrypt hash
\* of the password under some salt
HasPassword(row, password) ==
    \E salt \in Salts :
        /\ ~bcrypt_hash(password, salt).raised
        /\ row.hashed_password = bcrypt_hash(password, salt).value

\* rows extended by exactly one record, the earlier records as they were
OneMore(before, after) ==
    /\ Len(after) = Len(before) + 1
    /\ SubSeq(after, 1, Len(before)) = before

\* thread r takes the first step of a request, the one resp' would be the
\* exchange of if the step answered it
Arrived(r) ==
    /\ reqs[r].pc = "idle"
    /\ \/ resp'.op = "register"
          /\ Register(r, resp'.username, resp'.password)
       \/ resp'.op = "login" /\ Login(r, resp'.username, resp'.password)
       \/ resp'.op = "protected" /\ Protected(r, resp'.presented)
       \/ resp'.op = "refresh" /\ Refresh(r, resp'.presented)
       \/ resp'.op = "health" /\ Health(r, resp'.presented)

\* the step answers the request of thread r: resp' is its exchange
Answered(r) ==
    /\ reqs'[r].pc = "idle"
    /\ reqs[r].pc # "idle" \/ Arrived(r)

\* the rows of users when the request thread r is serving, or starts to
\* serve in this step, arrived
Before(r) == IF reqs[r].pc = "idle" THEN users ELSE reqs[r].before

\* no request is being served
Quiet == \A r \in Requests : reqs[r].pc = "idle"

\* C1: registering a <<username, password>> pair that an earlier Register
\* accepted (under the submitted or a suffixed username) answers 400
\* "User already exists" and leaves the users table as it was.
C1_DuplicateRegistrationRejected ==
    [][\A r \in Requests :
        (/\ Answered(r)
         /\ resp'.op = "register"
         /\ <<resp'.username, resp'.password>> \in registered)
            => /\ resp'.status = 400
               /\ resp'.detail = "User already exists"
               /\ users' = Before(r)]_vars

\* C2: Register of a stored username with a password that does not verify
\* against the stored hash appends exactly one record, under username+k
\* for the smallest k >= 1 such that username+k is not stored, and leaves
\* every earlier record (the original one included) unchanged.
C2_CollisionTakesNextFreeSuffix ==
    [][\A r \in Requests :
        (/\ Answered(r)
         /\ resp'.op = "register"
         /\ Stored(Before(r), resp'.username)
         /\ \A i \in 1..Len(Before(r)) :
                Before(r)[i].username = resp'.username
                    => ~HasPassword(Before(r)[i], resp'.password))
            => \E k \in 1..(Len(Before(r)) + 1) :
                /\ ~Stored(Before(r), resp'.username \o ToString(k))
                /\ \A j \in 1..(k - 1) :
                        Stored(Before(r), resp'.username \o ToString(j))
                /\ OneMore(Before(r), users')
                /\ users'[Len(users')].username
                        = resp'.username \o ToString(k)
                /\ HasPassword(users'[Len(users')], resp'.password)]_vars

\* C2 witness: a collision was stored under suffix 2, suffix 1 being taken
C2_Witness ==
    /\ Quiet
    /\ resp.op = "register" /\ resp.status = 200
    /\ Stored(users, resp.username)
    /\ Stored(users, resp.username \o "1")
    /\ users[Len(users)].username = resp.username \o "2"

\* C3: Register of a username that is not stored succeeds and stores the
\* record under the submitted username; every successful Register returns
\* an access token of type "access" and a refresh token of type "refresh"
\* whose sub is the username of the record it stored (the suffixed one on
\* a collision).
C3_RegisterIssuesTokensForStoredName ==
    [][\A r \in Requests :
        (Answered(r) /\ resp'.op = "register")
            => /\ ~Stored(Before(r), resp'.username)
                    => /\ resp'.status = 200
                       /\ OneMore(Before(r), users')
                       /\ users'[Len(users')].username = resp'.username
               /\ resp'.status = 200
                    => /\ OneMore(Before(r), users')
                       /\ resp'.access_token.key = SECRET_KEY
                       /\ resp'.refresh_token.key = SECRET_KEY
                       /\ resp'.access_token.payload.sub
                            = users'[Len(users')].username
                       /\ resp'.refresh_token.payload.sub
                            = users'[Len(users')].username
                       /\ resp'.access_token.payload.type = "access"
                       /\ resp'.refresh_token.payload.type = "refresh"]_vars

\* C3 witness: a successful Register stored under a suffixed username and
\* answered with tokens for it
C3_Witness ==
    /\ Quiet
    /\ resp.op = "register" /\ resp.status = 200
    /\ users[Len(users)].username # resp.username
    /\ resp.access_token.payload.sub = users[Len(users)].username

\* C4: Login with a stored username and its password answers 200 with both
\* tokens' sub equal to that username; Login with an unknown username and
\* Login with a stored username and another password both answer 401
\* "Invalid username or password" with no token.
C4_LoginOutcomes ==
    [][\A r \in Requests :
        (Answered(r) /\ resp'.op = "login")
            => IF \E i \in 1..Len(Before(r)) :
                    /\ Before(r)[i].username = resp'.username
                    /\ HasPassword(Before(r)[i], resp'.password)
               THEN /\ resp'.status = 200
                    /\ resp'.access_token.payload.sub = resp'.username
                    /\ resp'.refresh_token.payload.sub = resp'.username
                    /\ resp'.access_token.payload.type = "access"
                    /\ resp'.refresh_token.payload.type = "refresh"
               ELSE /\ resp'.status = 401
                    /\ resp'.detail = "Invalid username or password"
                    /\ resp'.access_token = NoToken
                    /\ resp'.refresh_token = NoToken]_vars

\* C4 witness: a login with a stored username and a wrong password, refused
C4_Witness ==
    /\ resp.op = "login" /\ resp.status = 401
    /\ \E i \in 1..Len(users) :
        /\ users[i].username = resp.username
        /\ ~HasPassword(users[i], resp.password)
    /\ Quiet

----------------------------------------------------------------------------
(* Properties of the token flows *)

\* the token carries a signature made with SECRET_KEY
Signed(token) == token.key = SECRET_KEY

\* C5: a token whose type claim is "access" is refused by the Refresh route
\* (verify_refresh_token), a token whose type claim is "refresh" is refused
\* by the protected route (get_current_user) and names no principal, and
\* create_refresh_token issues type "refresh" whatever type its caller
\* passed.
C5_TokenKindsNotInterchangeable ==
    /\ (resp.op = "refresh" /\ Get(resp.presented.payload, "type") = "access")
        => /\ resp.status = 401
           /\ resp.access_token = NoToken
    /\ (resp.op = "protected"
        /\ Get(resp.presented.payload, "type") = "refresh")
        => /\ resp.status = 401
           /\ resp.principal = ""
    /\ resp.op = "create_refresh_token"
        => Get(resp.refresh_token.payload, "type") = "refresh"

\* C5 witness: an unexpired access token issued by the service was
\* presented to Refresh and refused for its type
C5_Witness ==
    /\ resp.op = "refresh"
    /\ Signed(resp.presented)
    /\ Get(resp.presented.payload, "type") = "access"
    /\ "sub" \in DOMAIN resp.presented.payload
    /\ resp.presented.payload.exp >= resp.at
    /\ resp.status = 401
    /\ resp.detail = "Invalid token type"

\* C6: a token whose exp is earlier than the instant of verification is
\* refused with 401 on the access path and on the refresh path.
C6_ExpiredTokenRefused ==
    (/\ resp.op \in {"protected", "refresh"}
     /\ "exp" \in DOMAIN resp.presented.payload
     /\ resp.presented.payload.exp < resp.at)
        => /\ resp.status = 401
           /\ resp.principal = ""
           /\ resp.access_token = NoToken

\* C6 witness: a refresh token with a good signature, type and sub was
\* presented to Refresh after its exp and refused
C6_Witness ==
    /\ resp.op = "refresh"
    /\ Signed(resp.presented)
    /\ Get(resp.presented.payload, "type") = "refresh"
    /\ "sub" \in DOMAIN resp.presented.payload
    /\ resp.presented.payload.exp < resp.at
    /\ resp.status = 401

\* C7: Refresh with a signed token of type "refresh" that has a sub and is
\* unexpired when it is verified answers 200 with an access token of type
\* "access" for the same sub, issued no earlier than the verification and
\* valid ACCESS_TOKEN_EXPIRE_MINUTES from its issue, and with the presented
\* token as refresh_token.
C7_RefreshEchoesToken ==
    (/\ resp.op = "refresh"
     /\ Signed(resp.presented)
     /\ Get(resp.presented.payload, "type") = "refresh"
     /\ "sub" \in DOMAIN resp.presented.payload
     /\ resp.presented.payload.exp >= resp.at)
        => /\ resp.status = 200
           /\ resp.refresh_token = resp.presented
           /\ Signed(resp.access_token)
           /\ resp.access_token.payload.type = "access"
           /\ resp.access_token.payload.sub = resp.presented.payload.sub
           /\ resp.issued >= resp.at
           /\ resp.access_token.payload.exp
                = resp.issued + Minutes(ACCESS_TOKEN_EXPIRE_MINUTES)

\* C7 witness: a refresh after the first access token expired
C7_Witness ==
    /\ resp.op = "refresh" /\ resp.status = 200
    /\ resp.at > Minutes(ACCESS_TOKEN_EXPIRE_MINUTES)
    /\ resp.refresh_token = resp.presented
    /\ resp.access_token.payload.sub = resp.presented.payload.sub

----------------------------------------------------------------------------
(* Properties of the storage layer *)

\* C8: a Login made while the store fails (the database is locked or the
\* users table is missing) is answered with HTTP 500, never with the 401 of
\* invalid credentials, and the answer does not carry the store's error text.
C8_StorageFailureDuringLoginIs500 ==
    [][\A r \in Requests, u \in Usernames, p \in Passwords :
        (Login(r, u, p) /\ (locked \/ "users" \notin tables))
            => /\ resp'.status = 500
               /\ resp'.detail # "Invalid username or password"
               /\ ~Contains(resp'.detail, "locked")
               /\ ~Contains(resp'.detail, "no such table")]_vars

\* the verb a method of the DatabaseManager requires of its query
MethodVerb ==
    [select |-> "SELECT", insert |-> "INSERT", update |-> "UPDATE",
     delete |-> "DELETE", insert_many |-> "INSERT"]

\* the text of the DatabaseError for a query of the wrong kind
InvalidStatementKind ==
    [select |-> "Query must be a SELECT statement",
     insert |-> "Query must be an INSERT statement",
     update |-> "Query must be an UPDATE statement",
     delete |-> "Query must be a DELETE statement",
     insert_many |-> "Query must be an INSERT statement"]

RECURSIVE FirstWord(_)
\* the leading run of non-whitespace characters of s
FirstWord(s) ==
    IF Len(s) = 0 \/ Head(s) \in Whitespace THEN ""
    ELSE Head(s) \o FirstWord(Tail(s))

\* the leading verb of a query: its first word, trimmed, case ignored
LeadingVerb(query) == FirstWord(StripUpper(query))

\* C9: a call of select, insert, update, delete or insert_many whose query
\* has a leading verb (whitespace trimmed, case ignored) other than the
\* method's verb fails with the DatabaseError for the wrong statement kind,
\* opens no connection and leaves the store as it was.
C9_WrongVerbRejectedBeforeStore ==
    [][(/\ dbcall' # dbcall
        /\ dbcall'.method \in DOMAIN MethodVerb
        /\ LeadingVerb(dbcall'.query) # MethodVerb[dbcall'.method])
            => /\ dbcall'.raised = InvalidStatementKind[dbcall'.method]
               /\ dbcall'.opened = 0
               /\ users' = users]_vars

\* C10: get_table_info returns the column descriptors of every table that
\* exists, and raises "Table ... does not exist" only for an absent table.
C10_TableInfoForExistingTables ==
    dbcall.method = "get_table_info"
        => /\ dbcall.query \in tables => dbcall.raised = ""
           /\ dbcall.raised = "Table '" \o dbcall.query \o "' does not exist"
                => dbcall.query \notin tables

\* C11: every call of the access layer has closed the connection it opened
\* by the time it returns, on success and on failure, so that after any
\* sequence of calls no connection is open.
C11_NoConnectionLeftOpen ==
    /\ connections = 0
    /\ dbcall.method # "none" => dbcall.opened <= 1

RECURSIVE OnlyNameChars(_)
\* every character of s is alphanumeric, an underscore or a hyphen
OnlyNameChars(s) ==
    \/ Len(s) = 0
    \/ /\ IsAlnumChar(Head(s)) \/ Head(s) \in {"_", "-"}
       /\ OnlyNameChars(Tail(s))

\* C12: table_exists returns False without raising for every non-empty name
\* made only of alphanumerics, underscores and hyphens that names no table,
\* and a name with any other character is refused as an invalid identifier
\* before any statement is executed.
C12_TableExistsValidatesName ==
    dbcall.method = "table_exists"
        => /\ (/\ dbcall.query # ""
               /\ OnlyNameChars(dbcall.query)
               /\ dbcall.query \notin tables)
                => /\ dbcall.raised = ""
                   /\ dbcall.value = FALSE
           /\ ~OnlyNameChars(dbcall.query)
                => /\ dbcall.raised \in
                        {"Table name contains invalid characters",
                         "Table name cannot be empty"}
                   /\ dbcall.opened = 0

\* C13: a health request bearing a valid access token whose health check
\* fails internally is answered with a 5xx status, and no 200 response
\* carries the text of the failure.
C13_HealthFailureIs5xx ==
    [][\A r \in Requests :
        (/\ CheckHealth(r)
         /\ get_current_user(reqs[r].presented, reqs[r].at).exc = NoExc
         /\ select(Db, SqlSelectOne, <<>>).raised # "")
            => /\ resp'.status >= 500
               /\ resp'.body = NoBody]_vars

\* values_list is a list whose elements are all tuples
AllTuples(values_list) ==
    /\ values_list.type = "list"
    /\ \A i \in DOMAIN values_list.items : values_list.items[i].type = "tuple"

\* the elements of values_list all have the same length
SameArity(values_list) ==
    \A i, j \in DOMAIN values_list.items :
        Len(values_list.items[i].items) = Len(values_list.items[j].items)

\* the outcome of insert_many(q, DbBatches[i]) on the database as it is
BatchOutcome(q, i) == insert_many(Db, q, DbBatches[i])

\* C14 as stated: insert_many with an INSERT query refuses with 'Values must
\* be a list of tuples', before reaching the store, every values_list that
\* is not a list of tuples of one arity; a batch of tuples of different
\* lengths is refused by this check and not by the store.
C14_BatchShapeChecked ==
    \A q \in DbQueries, i \in DOMAIN DbBatches :
        (/\ startswith(StripUpper(q), "INSERT")
         /\ ~(AllTuples(DbBatches[i]) /\ SameArity(DbBatches[i])))
            => /\ BatchOutcome(q, i).raised = "Values must be a list of tuples"
               /\ BatchOutcome(q, i).opened = 0

\* C14 amended: insert_many with an INSERT query refuses with 'Values must
\* be a list of tuples', before reaching the store, every values_list that
\* is not a list of tuples, and leaves the table as it was; a list of
\* tuples of different lengths passes this check, reaches the store and is
\* refused there with another DatabaseError, and the table is left as it
\* was when sqlite3 takes the text for an INSERT.
C14_BatchIsListOfTuples ==
    \A q \in DbQueries, i \in DOMAIN DbBatches :
        startswith(StripUpper(q), "INSERT")
            => /\ ~AllTuples(DbBatches[i])
                    => /\ BatchOutcome(q, i).raised
                            = "Values must be a list of tuples"
                       /\ BatchOutcome(q, i).opened = 0
                       /\ BatchOutcome(q, i).db.users = users
               /\ (AllTuples(DbBatches[i]) /\ ~SameArity(DbBatches[i]))
                    => /\ BatchOutcome(q, i).raised
                            \notin {"", "Values must be a list of tuples"}
                       /\ BatchOutcome(q, i).opened = 1
                       /\ is_dml(q) => BatchOutcome(q, i).db.users = users

\* C14 witness: a batch of tuples of different lengths was refused by the
\* store, and not by the shape check
C14_Witness ==
    /\ dbcall.method = "insert_many"
    /\ dbcall.opened = 1
    /\ startswith(dbcall.raised,
                  "Database error: Incorrect number of bindings supplied")

----------------------------------------------------------------------------
(* Properties of the users table *)

\* C15: with requests served one at a time, each create_user running to
\* completion before the next starts, and starting from an empty users
\* table, no two user records ever have the same username.
C15_UsernamesUniqueSequentially ==
    \A i, j \in DOMAIN users :
        users[i].username = users[j].username => i = j

\* C16: with Register requests running concurrently and interleaving
\* between the statements of create_user, no reachable state holds two user
\* records with the same username.
C16_UsernamesUniqueConcurrently ==
    \A i \in DOMAIN users : \A j \in DOMAIN users :
        i < j => users[i].username # users[j].username

\* C17: no exposed operation updates or deletes a user record: the users
\* table changes only in the INSERT of a Register, which adds exactly one
\* record and leaves every earlier record as it was, and that Register is
\* answered 200; from its arrival to its answer a Register answered 200
\* has added exactly one record, and a Login, Refresh, Protected, Health
\* or refused Register has left the table as it was.
C17_UsersOnlyGrowByRegister ==
    [][/\ users' # users
            => \E r \in Requests :
                /\ reqs[r].op = "register"
                /\ InsertRow(r)
                /\ reqs'[r].pc = "access"
                /\ OneMore(users, users')
       /\ \A r \in Requests :
            /\ (reqs'[r].op = "register"
                /\ reqs'[r].pc \in {"access", "refresh"})
                => OneMore(reqs'[r].before, users')
            /\ Answered(r)
                => IF resp'.op = "register" /\ resp'.status = 200
                   THEN OneMore(Before(r), users')
                   ELSE users' = Before(r)]_vars

\* C17 witness: a Register of a username that is not stored was refused,
\* the store being locked, with a record in the table
C17_Witness ==
    /\ Quiet
    /\ resp.op = "register"
    /\ resp.status = 400
    /\ locked
    /\ Len(users) >= 1
    /\ ~Stored(users, resp.username)

\* C18: Register answers 400 'User already exists' only when the submitted
\* username is stored and the submitted password verifies against that
\* record; a storage or hashing failure inside registration is answered
\* otherwise.
C18_AlreadyExistsOnlyForDuplicates ==
    [][\A r \in Requests :
        (/\ Answered(r)
         /\ resp'.op = "register"
         /\ resp'.status = 400
         /\ resp'.detail = "User already exists")
            => \E i \in DOMAIN Before(r) :
                /\ Before(r)[i].username = resp'.username
                /\ HasPassword(Before(r)[i], resp'.password)]_vars

----------------------------------------------------------------------------
(* Properties of the ETL run *)

\* C19: in a run of the ETL entry point the load step happens only after
\* the extraction succeeded and its data was saved, the CSV file the loader
\* reads is the one save_data wrote in that run, and a loaded table holds
\* the rows extracted in that run.
C19_LoadFollowsExtractOfSameRun ==
    etl.load # "not run"
        => /\ etl.df # "none"
           /\ etl.load = "ok"
                => /\ etl.read = "nvidia_stock.csv"
                   /\ etl.table = etl.df

============================================================================
